---------------------------- MODULE Spec2Model ----------------------------
(***************************************************************************)
(* Model of the S3 explorer backend (src/backend/app): the call-recording  *)
(* filename parser (file_parser.py), the related-files search and the      *)
(* object operations of the API (main.py) over the storage provider        *)
(* (s3.py) and the relational store.                                        *)
(*                                                                         *)
(* A Python str is a sequence of one-character strings.  A Python          *)
(* Optional[x] is Absent (None) or Some(x).                                 *)
(***************************************************************************)
EXTENDS Integers, Sequences, FiniteSets, TLC

VARIABLES
    file_key,      \* parser run: the argument of parse_call_file_name
    outcome,       \* parser run: what the call produced
    buckets,       \* table clientes_buckets: bucket id -> row (or NoRow)
    objects,       \* storage provider: the keys stored in the storage bucket
    acoes_logs,    \* table acoes_logs, in insertion order
    s3_calls,      \* storage-provider calls issued by the latest request
    classified,    \* the listed keys the latest request went through, in order
    response,      \* the latest request and the response it got
    pending,       \* bucket requests in flight: client -> what it has read so far
    pages,         \* paging client: the keys of the pages it has fetched so far
    toggles        \* bucket id -> toggle requests completed, where they run in steps

vars == <<file_key, outcome, buckets, objects, acoes_logs, s3_calls,
          classified, response, pending, pages, toggles>>

-----------------------------------------------------------------------------
(* Python values *)

Absent == <<>>
Some(x) == <<x>>

\* str.split(sep): always at least one part, empty parts kept
split(s, sep) ==
    LET \* the positions of the separators, in order, and Len(s) + 1
        at == SelectSeq([i \in 1..Len(s) |-> i], LAMBDA i : s[i] = sep)
                  \o <<Len(s) + 1>>
    IN  [j \in 1..Len(at) |->
            SubSeq(s, (IF j = 1 THEN 0 ELSE at[j - 1]) + 1, at[j] - 1)]

\* sep.join(parts)
RECURSIVE join(_, _)
join(parts, sep) ==
    IF Len(parts) = 0 THEN <<>>
    ELSE IF Len(parts) = 1 THEN parts[1]
    ELSE parts[1] \o <<sep>> \o join(Tail(parts), sep)

\* c in s
contains(s, c) == \E i \in 1..Len(s) : s[i] = c

\* s.startswith(prefix)
startswith(s, prefix) ==
    /\ Len(prefix) <= Len(s)
    /\ SubSeq(s, 1, Len(prefix)) = prefix

\* the elements of a sequence
Range(s) == {s[i] : i \in 1..Len(s)}

\* parts[-1]
last(parts) == parts[Len(parts)]

\* parts[:-1]
butlast(parts) == SubSeq(parts, 1, Len(parts) - 1)

\* sub in s
Substring(sub, s) ==
    \E i \in 1..(Len(s) - Len(sub) + 1) : SubSeq(s, i, i + Len(sub) - 1) = sub

\* c.lower() of one character
lower_char(c) ==
    CASE c = "A" -> "a" [] c = "B" -> "b" [] c = "C" -> "c" [] c = "D" -> "d"
      [] c = "E" -> "e" [] c = "F" -> "f" [] c = "G" -> "g" [] c = "H" -> "h"
      [] c = "I" -> "i" [] c = "J" -> "j" [] c = "K" -> "k" [] c = "L" -> "l"
      [] c = "M" -> "m" [] c = "N" -> "n" [] c = "O" -> "o" [] c = "P" -> "p"
      [] c = "Q" -> "q" [] c = "R" -> "r" [] c = "S" -> "s" [] c = "T" -> "t"
      [] c = "U" -> "u" [] c = "V" -> "v" [] c = "W" -> "w" [] c = "X" -> "x"
      [] c = "Y" -> "y" [] c = "Z" -> "z" [] OTHER -> c

\* s.lower()
lower(s) == [i \in 1..Len(s) |-> lower_char(s[i])]

\* s.strip(), of the blank
strip(s) ==
    LET inked == {i \in 1..Len(s) : s[i] # " "}
    IN  IF inked = {} THEN <<>>
        ELSE SubSeq(s, CHOOSE i \in inked : \A j \in inked : i <= j,
                    CHOOSE i \in inked : \A j \in inked : j <= i)

-----------------------------------------------------------------------------
(* datetime.strptime(timestamp_str, "%Y-%m-%dT%H:%M:%SZ") and isoformat()  *)

Digits == {"0", "1", "2", "3", "4", "5", "6", "7", "8", "9"}

DigitVal(c) ==
    CASE c = "0" -> 0 [] c = "1" -> 1 [] c = "2" -> 2 [] c = "3" -> 3
      [] c = "4" -> 4 [] c = "5" -> 5 [] c = "6" -> 6 [] c = "7" -> 7
      [] c = "8" -> 8 [] c = "9" -> 9 [] OTHER -> 0

DigitChar(n) ==
    CASE n = 0 -> "0" [] n = 1 -> "1" [] n = 2 -> "2" [] n = 3 -> "3"
      [] n = 4 -> "4" [] n = 5 -> "5" [] n = 6 -> "6" [] n = 7 -> "7"
      [] n = 8 -> "8" [] OTHER -> "9"

RECURSIVE Num(_)
Num(t) == IF Len(t) = 0 THEN 0
          ELSE 10 * Num(butlast(t)) + DigitVal(last(t))

\* the directive patterns of strptime, each matched against a whole token
MatchY(t) == Len(t) = 4 /\ \A i \in 1..4 : t[i] \in Digits
Matchm(t) ==
    \/ Len(t) = 2 /\ t[1] = "1" /\ t[2] \in {"0", "1", "2"}
    \/ Len(t) = 2 /\ t[1] = "0" /\ t[2] \in Digits \ {"0"}
    \/ Len(t) = 1 /\ t[1] \in Digits \ {"0"}
Matchd(t) ==
    \/ Len(t) = 2 /\ t[1] = "3" /\ t[2] \in {"0", "1"}
    \/ Len(t) = 2 /\ t[1] \in {"1", "2"} /\ t[2] \in Digits
    \/ Len(t) = 2 /\ t[1] = "0" /\ t[2] \in Digits \ {"0"}
    \/ Len(t) = 1 /\ t[1] \in Digits \ {"0"}
    \/ Len(t) = 2 /\ t[1] = " " /\ t[2] \in Digits \ {"0"}
MatchH(t) ==
    \/ Len(t) = 2 /\ t[1] = "2" /\ t[2] \in {"0", "1", "2", "3"}
    \/ Len(t) = 2 /\ t[1] \in {"0", "1"} /\ t[2] \in Digits
    \/ Len(t) = 1 /\ t[1] \in Digits
MatchM(t) ==
    \/ Len(t) = 2 /\ t[1] \in {"0", "1", "2", "3", "4", "5"} /\ t[2] \in Digits
    \/ Len(t) = 1 /\ t[1] \in Digits
MatchS(t) ==
    \/ Len(t) = 2 /\ t[1] = "6" /\ t[2] \in {"0", "1"}
    \/ Len(t) = 2 /\ t[1] \in {"0", "1", "2", "3", "4", "5"} /\ t[2] \in Digits
    \/ Len(t) = 1 /\ t[1] \in Digits

IsLeap(y) == (y % 4 = 0 /\ y % 100 # 0) \/ y % 400 = 0

DaysInMonth(y, m) ==
    IF m = 2 THEN (IF IsLeap(y) THEN 29 ELSE 28)
    ELSE IF m \in {4, 6, 9, 11} THEN 30 ELSE 31

ValueError == [ok |-> FALSE]

\* The format is compiled to a regular expression (matched ignoring case)
\* that must consume the whole string; the fields are then passed to the
\* datetime constructor, which rejects year 0, a day past the month's end
\* and seconds above 59.
strptime(s) ==
    LET lens == IF Len(s) < 15 \/ Len(s) > 20 THEN {}
                ELSE {l \in [1..5 -> 1..2] :
                         Len(s) = 10 + l[1] + l[2] + l[3] + l[4] + l[5]}
        pm(l) == 6
        pd(l) == pm(l) + l[1] + 1
        pH(l) == pd(l) + l[2] + 1
        pM(l) == pH(l) + l[3] + 1
        pS(l) == pM(l) + l[4] + 1
        tok(p, n) == SubSeq(s, p, p + n - 1)
        fits(l) ==
            /\ MatchY(tok(1, 4))
            /\ s[5] = "-"
            /\ Matchm(tok(pm(l), l[1]))
            /\ s[pd(l) - 1] = "-"
            /\ Matchd(tok(pd(l), l[2]))
            /\ s[pH(l) - 1] \in {"T", "t"}
            /\ MatchH(tok(pH(l), l[3]))
            /\ s[pM(l) - 1] = ":"
            /\ MatchM(tok(pM(l), l[4]))
            /\ s[pS(l) - 1] = ":"
            /\ MatchS(tok(pS(l), l[5]))
            /\ s[pS(l) + l[5]] \in {"Z", "z"}
        found == {l \in lens : fits(l)}
    IN  IF found = {} THEN ValueError
        ELSE LET l == CHOOSE l \in found : TRUE
                 y == Num(tok(1, 4))
                 m == Num(tok(pm(l), l[1]))
                 d == Num(tok(pd(l), l[2]))
                 H == Num(tok(pH(l), l[3]))
                 M == Num(tok(pM(l), l[4]))
                 S == Num(tok(pS(l), l[5]))
             IN  IF y < 1 \/ d > DaysInMonth(y, m) \/ S > 59
                 THEN ValueError
                 ELSE [ok |-> TRUE, year |-> y, month |-> m, day |-> d,
                       hour |-> H, minute |-> M, second |-> S]

\* datetime.strptime(s, "%Y-%m-%d").date(), as <<year, month, day>>
strptime_date(s) ==
    LET lens == IF Len(s) < 8 \/ Len(s) > 10 THEN {}
                ELSE {l \in [1..2 -> 1..2] : Len(s) = 6 + l[1] + l[2]}
        tok(p, n) == SubSeq(s, p, p + n - 1)
        fits(l) ==
            /\ MatchY(tok(1, 4))
            /\ s[5] = "-"
            /\ Matchm(tok(6, l[1]))
            /\ s[6 + l[1]] = "-"
            /\ Matchd(tok(7 + l[1], l[2]))
        found == {l \in lens : fits(l)}
    IN  IF found = {} THEN ValueError
        ELSE LET l == CHOOSE l \in found : TRUE
                 y == Num(tok(1, 4))
                 m == Num(tok(6, l[1]))
                 d == Num(tok(7 + l[1], l[2]))
             IN  IF y < 1 \/ d > DaysInMonth(y, m) THEN ValueError
                 ELSE [ok |-> TRUE, date |-> <<y, m, d>>]

\* a < b for dates <<year, month, day>>
DateLess(a, b) ==
    \/ a[1] < b[1]
    \/ a[1] = b[1] /\ a[2] < b[2]
    \/ a[1] = b[1] /\ a[2] = b[2] /\ a[3] < b[3]

Pad2(n) == <<DigitChar(n \div 10), DigitChar(n % 10)>>

Pad4(n) == <<DigitChar(n \div 1000), DigitChar((n \div 100) % 10),
             DigitChar((n \div 10) % 10), DigitChar(n % 10)>>

\* datetime.isoformat() of a naive datetime with no microseconds
isoformat(dt) ==
    Pad4(dt.year) \o <<"-">> \o Pad2(dt.month) \o <<"-">> \o Pad2(dt.day)
        \o <<"T">> \o Pad2(dt.hour) \o <<":">> \o Pad2(dt.minute)
        \o <<":">> \o Pad2(dt.second)

-----------------------------------------------------------------------------
(* file_parser.py *)

\* return None
NotACallFile == [file_type |-> "None"]

\* an exception leaving the function
Raised == [file_type |-> "Raised"]

\* file_uuid = file_uuid_with_ext.split('.')[0]
file_uuid_of(file_uuid_with_ext) == split(file_uuid_with_ext, ".")[1]

\* a bug: the dot is not put back in front of the extension
extension_of_NoDot(file_uuid_with_ext) ==
    IF contains(file_uuid_with_ext, ".")
    THEN last(split(file_uuid_with_ext, "."))
    ELSE <<>>

\* extension = '.' + file_uuid_with_ext.split('.')[-1]
\*             if '.' in file_uuid_with_ext else ''
extension_of(file_uuid_with_ext) ==
    IF contains(file_uuid_with_ext, ".")
    THEN <<".">> \o last(split(file_uuid_with_ext, "."))
    ELSE <<>>

\* a bug: only the "2A" and "2B" markers are recognised
leg_letter_of_Only2(leg) ==
    IF startswith(leg, <<"2", "A">>) THEN Some(<<"A">>)
    ELSE IF startswith(leg, <<"2", "B">>) THEN Some(<<"B">>)
    ELSE Absent

\* leg_letter: 'A', 'B' or None
leg_letter_of(leg) ==
    IF startswith(leg, <<"2", "A">>) \/ startswith(leg, <<"A">>)
    THEN Some(<<"A">>)
    ELSE IF startswith(leg, <<"2", "B">>) \/ startswith(leg, <<"B">>)
    THEN Some(<<"B">>)
    ELSE Absent

\* timestamp.isoformat() if timestamp else None, where timestamp is still
\* None when strptime raised
isoformat_or_None(timestamp) ==
    IF timestamp.ok THEN Some(isoformat(timestamp)) ELSE Absent

\* a bug: a failed strptime aborts the parse (the outer handler returns None)
timestamp_of_Fatal(timestamp_str) ==
    [raised |-> ~strptime(timestamp_str).ok,
     value |-> isoformat_or_None(strptime(timestamp_str))]

\* timestamp = None
\* try: timestamp = datetime.strptime(timestamp_str, ...)
\* except: pass
\* ... timestamp.isoformat() if timestamp else None
timestamp_of(timestamp_str) ==
    [raised |-> FALSE, value |-> isoformat_or_None(strptime(timestamp_str))]

\* a bug: only the first directory of the key is kept
date_path_of_FirstDir(key) ==
    IF contains(key, "/") THEN split(key, "/")[1] ELSE <<>>

\* date_path = '/'.join(file_key.split('/')[:-1]) if '/' in file_key else ''
date_path_of(key) ==
    IF contains(key, "/") THEN join(butlast(split(key, "/")), "/") ELSE <<>>

\* a bug: an empty call_uuid or phone_number field is recorded as None
audio_metadata_EmptyIsNone(key, parts, timestamp) ==
    [file_type |-> "audio",
     call_uuid |-> IF parts[2] = <<>> THEN Absent ELSE Some(parts[2]),
     file_uuid |-> file_uuid_of(parts[5]),
     leg |-> leg_letter_of(parts[4]),
     phone_number |-> IF parts[3] = <<>> THEN Absent ELSE Some(parts[3]),
     timestamp |-> timestamp,
     date_path |-> date_path_of(key),
     extension |-> extension_of(parts[5])]

\* the dict returned for a 5-field leaf, given its "timestamp" entry
audio_metadata(key, parts, timestamp) ==
    [file_type |-> "audio",
     call_uuid |-> Some(parts[2]),
     file_uuid |-> file_uuid_of(parts[5]),
     leg |-> leg_letter_of(parts[4]),
     phone_number |-> Some(parts[3]),
     timestamp |-> timestamp,
     date_path |-> date_path_of(key),
     extension |-> extension_of(parts[5])]

\* the dict returned for a 2-field leaf, given its "timestamp" entry
transcription_metadata(key, parts, timestamp) ==
    [file_type |-> "transcription",
     call_uuid |-> Absent,
     file_uuid |-> file_uuid_of(parts[2]),
     leg |-> Absent,
     phone_number |-> Absent,
     timestamp |-> timestamp,
     date_path |-> date_path_of(key),
     extension |-> extension_of(parts[2])]

\* timestamp_str = parts[0]
timestamp_str_of(key) == split(last(split(key, "/")), "~")[1]

\* a bug: any leaf of five or more fields is taken for an audio file
parse_body_AtLeast5(key, timestamp) ==
    LET filename == last(split(key, "/"))
        parts == split(filename, "~")
    IN  IF ~contains(filename, "~") THEN NotACallFile
        ELSE IF Len(parts) >= 5
        THEN audio_metadata(key, parts, timestamp.value)
        ELSE IF Len(parts) = 2
        THEN transcription_metadata(key, parts, timestamp.value)
        ELSE NotACallFile

\* the body of the outer try block, given the conversion of the timestamp
\* field: whether it raised and, if it did not, the value of the
\* "timestamp" entry
parse_body(key, timestamp) ==
    LET filename == last(split(key, "/"))
        parts == split(filename, "~")
    IN  IF ~contains(filename, "~") THEN NotACallFile
        ELSE IF Len(parts) = 5 THEN
            IF timestamp.raised THEN Raised
            ELSE audio_metadata(key, parts, timestamp.value)
        ELSE IF Len(parts) = 2 THEN
            IF timestamp.raised THEN Raised
            ELSE transcription_metadata(key, parts, timestamp.value)
        ELSE NotACallFile

\* a bug: len(parts) >= 5 in place of len(parts) == 5
parse_call_file_name_AtLeast5(key) ==
    parse_body_AtLeast5(key, timestamp_of(timestamp_str_of(key)))

\* a bug: no exception handler at all, a failed strptime leaves the function
parse_call_file_name_NoHandlers(key) ==
    parse_body(key, timestamp_of_Fatal(timestamp_str_of(key)))

\* except Exception: return None
except_returns_None(r) == IF r = Raised THEN NotACallFile ELSE r

\* try: <body> except Exception: return None
parse_call_file_name(key) ==
    except_returns_None(parse_body(key, timestamp_of(timestamp_str_of(key))))

is_call_file(key) == parse_call_file_name(key) # NotACallFile

-----------------------------------------------------------------------------
(* The keys the parser is run on: [<dir>/]<field>~...~<field> *)

\* the largest number of `~`-separated fields of a generated leaf
MaxFields == 6

TsValid == <<"2", "0", "2", "5", "-", "1", "1", "-", "2", "6", "T",
             "2", "1", ":", "2", "9", ":", "1", "9", "Z">>

TsFields ==
    { TsValid,
      \* 2025-1-6T1:2:3Z
      <<"2", "0", "2", "5", "-", "1", "-", "6", "T", "1", ":", "2", ":", "3", "Z">>,
      \* 2025-11-26t21:29:19z
      <<"2", "0", "2", "5", "-", "1", "1", "-", "2", "6", "t",
        "2", "1", ":", "2", "9", ":", "1", "9", "z">>,
      \* not-a-date
      <<"n", "o", "t", "-", "a", "-", "d", "a", "t", "e">>,
      \* 2025-02-30T21:29:19Z
      <<"2", "0", "2", "5", "-", "0", "2", "-", "3", "0", "T",
        "2", "1", ":", "2", "9", ":", "1", "9", "Z">>,
      \* 2025-11-26T21:29:19
      <<"2", "0", "2", "5", "-", "1", "1", "-", "2", "6", "T",
        "2", "1", ":", "2", "9", ":", "1", "9">>,
      <<>> }

CallFields == { <<"C", "1">>, <<>> }

PhoneFields == { <<"5", "5", "5">> }

LegFields ==
    { <<"A">>, <<"2", "A">>, <<"2", "A", "x", "y", "z">>,
      <<"B">>, <<"2", "B", "5", "5", "5">>,
      <<"X">>, <<"2">>, <<"a">>, <<>> }

LastFields ==
    { <<"F", "1", ".", "m", "p", "3">>,
      <<"F", "1">>,
      <<"F", "1", ".", "t", "a", "r", ".", "g", "z">>,
      <<".", "j", "s", "o", "n">>,
      <<"F", "2", ".">>,
      <<>> }

Dirs ==
    { <<>>,
      <<"2", "0", "2", "5", "/", "1", "1", "/", "2", "6", "/">>,
      <<"/">>,
      <<"a", "~", "b", "/">> }

\* the choices for field i of a leaf of n fields
FieldChoices(n, i) ==
    IF i = n THEN LastFields
    ELSE IF i = 1 THEN TsFields
    ELSE IF i = 2 THEN CallFields
    ELSE IF i = 4 THEN LegFields
    ELSE PhoneFields

RECURSIVE FieldSeqs(_, _)
FieldSeqs(n, i) ==
    IF i > n THEN { <<>> }
    ELSE { <<f>> \o r : f \in FieldChoices(n, i), r \in FieldSeqs(n, i + 1) }

KeySpace ==
    { d \o join(fs, "~") :
        d \in Dirs, fs \in UNION { FieldSeqs(n, 1) : n \in 1..MaxFields } }

-----------------------------------------------------------------------------
(* s3.py: the storage provider *)

\* the keys of the model's storage bucket
KeyA1 == <<"d", "/", "1", "~", "C", "1", "~", "5", "~", "2", "A", "~",
           "F", "1", ".", "m", "p", "3">>     \* d/1~C1~5~2A~F1.mp3
KeyA2 == <<"d", "/", "2", "~", "C", "1", "~", "5", "~", "A", "~",
           "F", "3", ".", "m", "p", "3">>     \* d/2~C1~5~A~F3.mp3
KeyB == <<"d", "/", "3", "~", "C", "1", "~", "5", "~", "2", "B", "~",
          "F", "2", ".", "m", "p", "3">>      \* d/3~C1~5~2B~F2.mp3
KeyT == <<"d", "/", "4", "~", "F", "1", ".", "j", "s", "o", "n">>
                                              \* d/4~F1.json
KeyT2 == <<"d", "/", "5", "~", "F", "1", ".", "t", "x", "t">>
                                              \* d/5~F1.txt
KeyOther == <<"d", "/", "6", "~", "C", "2", "~", "5", "~", "2", "A", "~",
              "F", "4", ".", "m", "p", "3">>  \* d/6~C2~5~2A~F4.mp3
KeyB2 == <<"d", "/", "7", "~", "C", "1", "~", "5", "~", "B", "~",
           "F", "6", ".", "m", "p", "3">>     \* d/7~C1~5~B~F6.mp3
KeyNotes == <<"d", "/", "n", "o", "t", "e", "s", ".", "t", "x", "t">>
                                              \* d/notes.txt
KeyElsewhere == <<"e", "/", "1", "~", "C", "1", "~", "5", "~", "2", "B", "~",
                  "F", "5", ".", "m", "p", "3">>  \* e/1~C1~5~2B~F5.mp3
KeyTop == <<"8", "~", "C", "1", "~", "5", "~", "X", "~",
            "F", "1", ".", "m", "p", "3">>    \* 8~C1~5~X~F1.mp3

KeyUpper == <<"d", "/", "9", "~", "F", "1", ".", "T", "X", "T">>
                                              \* d/9~F1.TXT

\* the most objects the storage bucket holds
MaxObjects == 4

\* the characters of the keys, by ascending code point
Alphabet ==
    <<" ", "-", ".", "/", "0", "1", "2", "3", "4", "5",
      "6", "7", "8", "9", ":", "A", "B", "C", "F", "T",
      "X", "Z", "_", "a", "b", "d", "e", "g", "j", "m",
      "n", "o", "p", "r", "s", "t", "x", "y", "z", "~">>

\* the rank of a character in the order of code points
Ord == [c \in Range(Alphabet) |-> CHOOSE i \in 1..Len(Alphabet) : Alphabet[i] = c]

\* a < b in the order the provider lists keys in (by code point)
KeyLess(a, b) ==
    LET differ == {i \in 1..Len(a) : i <= Len(b) /\ a[i] # b[i]}
    IN  IF differ = {} THEN Len(a) < Len(b)
        ELSE LET i == CHOOSE i \in differ : \A j \in differ : i <= j
             IN  Ord[a[i]] < Ord[b[i]]

\* every key of the model, in listing order
KeyOrder ==
    SortSeq(<<KeyA1, KeyA2, KeyB, KeyT, KeyT2, KeyOther, KeyB2, KeyNotes,
              KeyElsewhere, KeyTop, KeyUpper>>, KeyLess)

\* the keys the related-files search is run over
ObjKeys == Range(KeyOrder) \ {KeyUpper}

\* LastModified of each object, as the date of <<year, month, day>>
LastModified ==
    [k \in Range(KeyOrder) |->
        IF k \in {KeyA1, KeyT} THEN <<2025, 11, 25>>
        ELSE IF k \in {KeyNotes, KeyElsewhere} THEN <<2025, 11, 27>>
        ELSE <<2025, 11, 26>>]

\* the keys of a set of stored keys, in listing order
Sorted(S) == SelectSeq(KeyOrder, LAMBDA k : k \in S)

\* params["MaxKeys"] = 1000 when the caller gives none
S3MaxKeys == 1000

\* the provider returns at most this many keys per call, whatever MaxKeys:
\* 1000 at the provider, here scaled to the buckets of MaxObjects keys
S3PageLimit == 3

Min(a, b) == IF a < b THEN a ELSE b

\* "if prefix:", "if start_after:" of an Optional[str]
given(x) == x # Absent /\ Len(x[1]) > 0

\* the parameters list_bucket_files passes to list_objects_v2
list_params(bucket_name, prefix, start_after, max_keys) ==
    [op |-> "list_objects_v2",
     bucket |-> bucket_name,
     prefix |-> IF given(prefix) THEN prefix ELSE Absent,
     start_after |-> IF given(start_after) THEN start_after ELSE Absent,
     max_keys |-> IF max_keys # 0 THEN max_keys ELSE S3MaxKeys]

\* the text of a NextContinuationToken: opaque, the name of no key; in the
\* order of the keys it comes before them all, between them or after them
ContinuationTokens == {<<"1", "A">>, <<"d", "/", "3">>, <<"z">>}

\* list_bucket_files: list_objects_v2 answers with the keys that start with
\* Prefix and come after the string StartAfter, in key order, at most
\* MaxKeys of them, IsTruncated when more remain and then token as its
\* NextContinuationToken.  The result is (files, next_token, has_more).
list_bucket_files(stored, bucket_name, prefix, start_after, max_keys, token) ==
    LET params == list_params(bucket_name, prefix, start_after, max_keys)
        matching ==
            {k \in stored :
                /\ params.prefix # Absent => startswith(k, params.prefix[1])
                /\ params.start_after # Absent
                       => KeyLess(params.start_after[1], k)}
        all == Sorted(matching)
        n == Min(Len(all), Min(params.max_keys, S3PageLimit))
        has_more == n < Len(all)
    IN  [files |-> SubSeq(all, 1, n),
         next_token |-> IF has_more THEN Some(token) ELSE Absent,
         has_more |-> has_more]

-----------------------------------------------------------------------------
(* file_parser.py: find_related_files *)

NoRelated == [leg_a |-> Absent, leg_b |-> Absent, transcription |-> Absent]

\* the loop body of find_related_files for one file: a slot whose test the
\* file passes is assigned, whatever it held
related_step(related, file, call_uuid, file_uuid) ==
    LET metadata == file.call_metadata
    IN  IF metadata = Absent THEN related
        ELSE [related EXCEPT
                !.leg_a =
                    IF /\ metadata[1].file_type = "audio"
                       /\ metadata[1].call_uuid = call_uuid
                       /\ metadata[1].leg = Some(<<"A">>)
                    THEN Some(file) ELSE @,
                !.leg_b =
                    IF /\ metadata[1].file_type = "audio"
                       /\ metadata[1].call_uuid = call_uuid
                       /\ metadata[1].leg = Some(<<"B">>)
                    THEN Some(file) ELSE @,
                !.transcription =
                    IF /\ metadata[1].file_type = "transcription"
                       /\ metadata[1].file_uuid = file_uuid
                    THEN Some(file) ELSE @]

\* related_after[i] is the dict after the first i turns of "for file in all_files"
find_related_files(call_uuid, file_uuid, all_files) ==
    LET related_after[i \in 0..Len(all_files)] ==
            IF i = 0 THEN NoRelated
            ELSE related_step(related_after[i - 1], all_files[i],
                              call_uuid, file_uuid)
    IN  related_after[Len(all_files)]

-----------------------------------------------------------------------------
(* main.py: the relational store and the object operations *)

Users == {"u1", "u2"}

\* the ids requests name
BucketIds == {"b1", "b2"}

BucketNames == {"s3a"}

\* the most rows of acoes_logs
MaxLogs == 1

NoRow == [exists |-> FALSE]

NoResponse == [op |-> "none"]

NotRun == [file_type |-> "NotRun"]

\* clientes_buckets as the requests find it: one registration per user,
\* the second one inactive
StoredBuckets ==
    [b \in BucketIds |->
        IF b = "b1"
        THEN [exists |-> TRUE, user_id |-> "u1", name |-> "n1",
              bucket_name |-> "s3a", aws_access_key |-> "k1",
              aws_secret_key |-> "s1", region |-> "us-east-1",
              active |-> TRUE]
        ELSE [exists |-> TRUE, user_id |-> "u2", name |-> "n1",
              bucket_name |-> "s3a", aws_access_key |-> "k1",
              aws_secret_key |-> "s1", region |-> "us-east-1",
              active |-> FALSE]]

\* table("clientes_buckets").select("*").eq("id", bucket_id).single(),
\* through the user's client: row-level security hides the rows of other
\* users.  The handlers test "not bucket_result.data" for a hidden row.
select_bucket(rows, user_id, bucket_id) ==
    IF rows[bucket_id].exists /\ rows[bucket_id].user_id = user_id
    THEN rows[bucket_id]
    ELSE NoRow

\* a bug: the active flag is not looked at
authorize_IgnoreActive(rows, user_id, bucket_id) ==
    IF ~select_bucket(rows, user_id, bucket_id).exists THEN 404 ELSE 200

\* the first lines of every object operation: 404 for no visible row, 403
\* for an inactive one, else the handler goes on (200)
authorize(rows, user_id, bucket_id) ==
    LET bucket_data == select_bucket(rows, user_id, bucket_id)
    IN  IF ~bucket_data.exists THEN 404
        ELSE IF ~bucket_data.active THEN 403
        ELSE 200

\* a bug: a failed insert is not noticed and nothing is printed
log_action_Silent(logs, user_id, action_type, bucket_id, key, insert_ok) ==
    [logs |-> logs, log_error |-> FALSE]

\* log_action: the insert, and the message printed when it raises
log_action(logs, user_id, action_type, bucket_id, key, insert_ok) ==
    IF insert_ok
    THEN [logs |-> Append(logs, [user_id |-> user_id,
                                 action_type |-> action_type,
                                 bucket_id |-> bucket_id,
                                 file_key |-> key]),
          log_error |-> FALSE]
    ELSE [logs |-> logs, log_error |-> TRUE]

Reply(op, user_id, bucket_id, key, status, body) ==
    [op |-> op, user_id |-> user_id, bucket_id |-> bucket_id,
     file_key |-> key, status |-> status, body |-> body]

Error == [kind |-> "error"]

\* the request ends in an HTTPException before any storage call
Refuse(op, user_id, bucket_id, key, status) ==
    /\ response' = Reply(op, user_id, bucket_id, key, status, Error)
    /\ s3_calls' = <<>>
    /\ classified' = <<>>
    /\ UNCHANGED <<toggles, file_key, outcome, pending, pages, buckets, objects, acoes_logs>>

S3Call(op, bucket_name, key) ==
    [op |-> op, bucket |-> bucket_name, key |-> key]

\* the limit get_related_files gives the listing
RelatedMaxKeys == 10000

\* a bug: the call_uuid of an audio file is not compared
get_related_assign_AnyCall(related_files, f, f_metadata, call_uuid, file_uuid) ==
    IF f_metadata = NotACallFile THEN related_files
    ELSE [related_files EXCEPT
            !.leg_a =
                IF /\ f_metadata.file_type = "audio"
                   /\ f_metadata.leg = Some(<<"A">>)
                THEN Some([key |-> f, metadata |-> f_metadata]) ELSE @,
            !.leg_b =
                IF /\ f_metadata.file_type = "audio"
                   /\ f_metadata.leg = Some(<<"B">>)
                THEN Some([key |-> f, metadata |-> f_metadata]) ELSE @,
            !.transcription =
                IF /\ f_metadata.file_type = "transcription"
                   /\ f_metadata.file_uuid = file_uuid
                THEN Some([key |-> f, metadata |-> f_metadata]) ELSE @]

\* a bug: an object that is no call file empties the slots found so far
get_related_assign_ResetOnMalformed(related_files, f, f_metadata, call_uuid, file_uuid) ==
    IF f_metadata = NotACallFile THEN NoRelated
    ELSE [related_files EXCEPT
            !.leg_a =
                IF /\ f_metadata.file_type = "audio"
                   /\ f_metadata.call_uuid = call_uuid
                   /\ f_metadata.leg = Some(<<"A">>)
                THEN Some([key |-> f, metadata |-> f_metadata]) ELSE @,
            !.leg_b =
                IF /\ f_metadata.file_type = "audio"
                   /\ f_metadata.call_uuid = call_uuid
                   /\ f_metadata.leg = Some(<<"B">>)
                THEN Some([key |-> f, metadata |-> f_metadata]) ELSE @,
            !.transcription =
                IF /\ f_metadata.file_type = "transcription"
                   /\ f_metadata.file_uuid = file_uuid
                THEN Some([key |-> f, metadata |-> f_metadata]) ELSE @]

\* a bug: a slot that is filled is kept
get_related_assign_FirstWins(related_files, f, f_metadata, call_uuid, file_uuid) ==
    IF f_metadata = NotACallFile THEN related_files
    ELSE [related_files EXCEPT
            !.leg_a =
                IF /\ f_metadata.file_type = "audio"
                   /\ f_metadata.call_uuid = call_uuid
                   /\ f_metadata.leg = Some(<<"A">>)
                   /\ @ = Absent
                THEN Some([key |-> f, metadata |-> f_metadata]) ELSE @,
            !.leg_b =
                IF /\ f_metadata.file_type = "audio"
                   /\ f_metadata.call_uuid = call_uuid
                   /\ f_metadata.leg = Some(<<"B">>)
                   /\ @ = Absent
                THEN Some([key |-> f, metadata |-> f_metadata]) ELSE @,
            !.transcription =
                IF /\ f_metadata.file_type = "transcription"
                   /\ f_metadata.file_uuid = file_uuid
                   /\ @ = Absent
                THEN Some([key |-> f, metadata |-> f_metadata]) ELSE @]

\* a bug: for a target without call_uuid the audio files are matched by
\* their file_uuid
get_related_assign_ByFileUuid(related_files, f, f_metadata, call_uuid, file_uuid) ==
    IF f_metadata = NotACallFile THEN related_files
    ELSE [related_files EXCEPT
            !.leg_a =
                IF /\ f_metadata.file_type = "audio"
                   /\ \/ f_metadata.call_uuid = call_uuid
                      \/ call_uuid = Absent /\ f_metadata.file_uuid = file_uuid
                   /\ f_metadata.leg = Some(<<"A">>)
                THEN Some([key |-> f, metadata |-> f_metadata]) ELSE @,
            !.leg_b =
                IF /\ f_metadata.file_type = "audio"
                   /\ \/ f_metadata.call_uuid = call_uuid
                      \/ call_uuid = Absent /\ f_metadata.file_uuid = file_uuid
                   /\ f_metadata.leg = Some(<<"B">>)
                THEN Some([key |-> f, metadata |-> f_metadata]) ELSE @,
            !.transcription =
                IF /\ f_metadata.file_type = "transcription"
                   /\ f_metadata.file_uuid = file_uuid
                THEN Some([key |-> f, metadata |-> f_metadata]) ELSE @]

\* the tests and assignments of the loop body of get_related_files, for a
\* listed object f with metadata f_metadata (NotACallFile: "continue"): a
\* slot whose test the object passes is assigned, whatever it held
get_related_assign(related_files, f, f_metadata, call_uuid, file_uuid) ==
    IF f_metadata = NotACallFile THEN related_files
    ELSE [related_files EXCEPT
            !.leg_a =
                IF /\ f_metadata.file_type = "audio"
                   /\ f_metadata.call_uuid = call_uuid
                   /\ f_metadata.leg = Some(<<"A">>)
                THEN Some([key |-> f, metadata |-> f_metadata]) ELSE @,
            !.leg_b =
                IF /\ f_metadata.file_type = "audio"
                   /\ f_metadata.call_uuid = call_uuid
                   /\ f_metadata.leg = Some(<<"B">>)
                THEN Some([key |-> f, metadata |-> f_metadata]) ELSE @,
            !.transcription =
                IF /\ f_metadata.file_type = "transcription"
                   /\ f_metadata.file_uuid = file_uuid
                THEN Some([key |-> f, metadata |-> f_metadata]) ELSE @]

\* the loop body of get_related_files for one listed object:
\* f_metadata = parse_call_file_name(f.key) if is_call_file(f.key) else None
get_related_step(related_files, f, call_uuid, file_uuid) ==
    get_related_assign(related_files, f,
                       IF is_call_file(f) THEN parse_call_file_name(f)
                       ELSE NotACallFile,
                       call_uuid, file_uuid)

\* related_files_after[i] is the dict after the first i turns of
\* "for f in all_files"
get_related_loop(all_files, call_uuid, file_uuid) ==
    LET related_files_after[i \in 0..Len(all_files)] ==
            IF i = 0 THEN NoRelated
            ELSE get_related_step(related_files_after[i - 1], all_files[i],
                                  call_uuid, file_uuid)
    IN  related_files_after[Len(all_files)]

\* a bug: a target that is no call file is answered with 404
get_related_precheck_NotFound(gate, metadata) ==
    IF gate # 200 THEN gate
    ELSE IF metadata = NotACallFile THEN 404
    ELSE 200

\* what get_related_files does before it lists: the gate, then
\* "if not metadata: raise HTTPException(status_code=400, ...)";
\* 200 when it goes on
get_related_precheck(gate, metadata) ==
    IF gate # 200 THEN gate
    ELSE IF metadata = NotACallFile THEN 400
    ELSE 200

\* a bug: the listing is not given the date_path of the target
get_related_files_WholeBucket(user_id, bucket_id, key, s3_ok) ==
    LET bucket_data == select_bucket(buckets, user_id, bucket_id)
        metadata == parse_call_file_name(key)
        status == get_related_precheck(authorize(buckets, user_id, bucket_id),
                                       metadata)
        listing == list_bucket_files(objects[bucket_data.bucket_name],
                                     bucket_data.bucket_name,
                                     Absent, Absent,
                                     RelatedMaxKeys, <<"1", "A">>)
    IN  /\ s3_calls' =
             IF status # 200 THEN <<>>
             ELSE <<list_params(bucket_data.bucket_name,
                                Absent, Absent,
                                RelatedMaxKeys)>>
        /\ classified' =
             IF status # 200 \/ ~s3_ok THEN <<>> ELSE listing.files
        /\ response' =
             IF status # 200
             THEN Reply("get_related_files", user_id, bucket_id, key, status,
                        Error)
             ELSE IF ~s3_ok
             THEN Reply("get_related_files", user_id, bucket_id, key, 400,
                        Error)
             ELSE Reply("get_related_files", user_id, bucket_id, key, 200,
                        [kind |-> "related",
                         current_file |-> [key |-> key,
                                           metadata |-> metadata],
                         related |-> get_related_loop(
                             listing.files,
                             metadata.call_uuid, metadata.file_uuid)])
        /\ UNCHANGED <<toggles, file_key, outcome, pending, pages, buckets, objects, acoes_logs>>

\* GET /buckets/{bucket_id}/files/{file_key}/related: the gate, then the
\* target is parsed, then one listing under the target's date_path, then
\* the loop over what was listed
get_related_files(user_id, bucket_id, key, s3_ok) ==
    LET bucket_data == select_bucket(buckets, user_id, bucket_id)
        metadata == parse_call_file_name(key)
        status == get_related_precheck(authorize(buckets, user_id, bucket_id),
                                       metadata)
        listing == list_bucket_files(objects[bucket_data.bucket_name],
                                     bucket_data.bucket_name,
                                     Some(metadata.date_path), Absent,
                                     RelatedMaxKeys, <<"1", "A">>)
    IN  /\ s3_calls' =
             IF status # 200 THEN <<>>
             ELSE <<list_params(bucket_data.bucket_name,
                                Some(metadata.date_path), Absent,
                                RelatedMaxKeys)>>
        /\ classified' =
             IF status # 200 \/ ~s3_ok THEN <<>> ELSE listing.files
        /\ response' =
             IF status # 200
             THEN Reply("get_related_files", user_id, bucket_id, key, status,
                        Error)
             ELSE IF ~s3_ok
             THEN Reply("get_related_files", user_id, bucket_id, key, 400,
                        Error)
             ELSE Reply("get_related_files", user_id, bucket_id, key, 200,
                        [kind |-> "related",
                         current_file |-> [key |-> key,
                                           metadata |-> metadata],
                         related |-> get_related_loop(
                             listing.files,
                             metadata.call_uuid, metadata.file_uuid)])
        /\ UNCHANGED <<toggles, file_key, outcome, pending, pages, buckets, objects, acoes_logs>>

\* the FileResponse list_files builds for a listed key: call_metadata is
\* the parser's record when the key is a call file
FileInfo(key) ==
    [key |-> key,
     last_modified |-> LastModified[key],
     call_metadata |-> IF is_call_file(key)
                       THEN Some(parse_call_file_name(key))
                       ELSE Absent]

\* the query parameters of list_files that a request does not give
NoQuery ==
    [prefix |-> Absent, page_size |-> 50, next_token |-> Absent,
     search |-> Absent, date_from |-> Absent, date_to |-> Absent,
     file_extension |-> Absent]

\* date_from_obj, date_to_obj: strptime(...).date() if the parameter is
\* given, else None
date_obj(date) ==
    IF given(date) THEN strptime_date(date[1]) ELSE [ok |-> TRUE, date |-> Absent]

\* the date filter: file_date < date_from_obj and file_date > date_to_obj
\* are left out
in_dates(file, date_from_obj, date_to_obj) ==
    /\ date_from_obj.date # Absent
           => ~DateLess(file.last_modified, date_from_obj.date)
    /\ date_to_obj.date # Absent
           => ~DateLess(date_to_obj.date, file.last_modified)

\* a bug: the extension of the key is compared as it is written
extension_matches_KeyCase(key, file_extension) ==
    LET ext == strip(file_extension)
        ext_lower == lower(IF startswith(ext, <<".">>) THEN ext
                           ELSE <<".">> \o ext)
        file_ext == IF contains(key, ".")
                    THEN <<".">> \o last(split(key, "."))
                    ELSE <<>>
    IN  file_ext = ext_lower

\* the extension filter: ext_lower is the parameter stripped, with a leading
\* dot, in lower case; file_ext is "." and the text after the key's last
\* ".", in lower case, or "" when the key has no "."
extension_matches(key, file_extension) ==
    LET ext == strip(file_extension)
        ext_lower == lower(IF startswith(ext, <<".">>) THEN ext
                           ELSE <<".">> \o ext)
        file_ext == IF contains(key, ".")
                    THEN <<".">> \o lower(last(split(key, ".")))
                    ELSE <<>>
    IN  file_ext = ext_lower

\* the three filters, applied one after the other to the listed files
filter_files(files, q) ==
    LET dated ==
            IF given(q.date_from) \/ given(q.date_to)
            THEN SelectSeq(files,
                           LAMBDA f : in_dates(f, date_obj(q.date_from),
                                               date_obj(q.date_to)))
            ELSE files
        searched ==
            IF given(q.search)
            THEN SelectSeq(dated, LAMBDA f : Substring(q.search[1], f.key))
            ELSE dated
    IN  IF given(q.file_extension)
        THEN SelectSeq(searched,
                       LAMBDA f : extension_matches(f.key,
                                                    q.file_extension[1]))
        ELSE searched

\* what list_files answers once the listing is there: 400 when a date does
\* not parse (ValueError), else the filtered files with the has_more and the
\* next_token of the listing
list_files_answer(listing, q) ==
    IF \/ (given(q.date_from) \/ given(q.date_to))
              /\ ~date_obj(q.date_from).ok
       \/ (given(q.date_from) \/ given(q.date_to))
              /\ ~date_obj(q.date_to).ok
    THEN [status |-> 400, body |-> Error]
    ELSE [status |-> 200,
          body |-> [kind |-> "files",
                    files |-> filter_files(
                        [i \in 1..Len(listing.files) |->
                            FileInfo(listing.files[i])], q),
                    total |-> Len(filter_files(
                        [i \in 1..Len(listing.files) |->
                            FileInfo(listing.files[i])], q)),
                    has_more |-> listing.has_more,
                    next_token |-> listing.next_token]]

\* GET /buckets/{bucket_id}/files with the query parameters q; the listing
\* starts after next_token; token is what the provider gives as
\* NextContinuationToken
list_files(user_id, bucket_id, q, s3_ok, token) ==
    LET gate == authorize(buckets, user_id, bucket_id)
        bucket_data == select_bucket(buckets, user_id, bucket_id)
        listing == list_bucket_files(objects[bucket_data.bucket_name],
                                     bucket_data.bucket_name,
                                     q.prefix, q.next_token, q.page_size,
                                     token)
        answer == list_files_answer(listing, q)
    IN  IF gate # 200
        THEN Refuse("list_files", user_id, bucket_id, q, gate)
        ELSE
            /\ s3_calls' = <<list_params(bucket_data.bucket_name, q.prefix,
                                         q.next_token, q.page_size)>>
            /\ classified' = IF s3_ok THEN listing.files ELSE <<>>
            /\ response' =
                 IF s3_ok
                 THEN Reply("list_files", user_id, bucket_id, q,
                            answer.status, answer.body)
                 ELSE Reply("list_files", user_id, bucket_id, q, 400, Error)
            /\ UNCHANGED <<toggles, file_key, outcome, pending, buckets, objects,
                           acoes_logs>>

\* POST /buckets/{bucket_id}/upload
upload_file(user_id, bucket_id, filename, s3_ok) ==
    LET gate == authorize(buckets, user_id, bucket_id)
        bucket_data == select_bucket(buckets, user_id, bucket_id)
        name == bucket_data.bucket_name
    IN  IF gate # 200
        THEN Refuse("upload_file", user_id, bucket_id, filename, gate)
        ELSE
            /\ s3_ok => Cardinality(objects[name] \cup {filename}) <= MaxObjects
            /\ s3_calls' = <<S3Call("upload_fileobj", name, filename)>>
            /\ objects' = IF s3_ok
                          THEN [objects EXCEPT ![name] = @ \cup {filename}]
                          ELSE objects
            /\ response' = Reply("upload_file", user_id, bucket_id, filename,
                                 IF s3_ok THEN 200 ELSE 400,
                                 IF s3_ok THEN [kind |-> "uploaded"] ELSE Error)
            /\ classified' = <<>>
            /\ UNCHANGED <<toggles, file_key, outcome, pending, pages, buckets, acoes_logs>>

\* GET /buckets/{bucket_id}/files/{file_key}/download
download_file(user_id, bucket_id, key, s3_ok, insert_ok) ==
    LET gate == authorize(buckets, user_id, bucket_id)
        bucket_data == select_bucket(buckets, user_id, bucket_id)
        logged == log_action(acoes_logs, user_id, "download", bucket_id, key,
                             insert_ok)
    IN  IF gate # 200
        THEN Refuse("download_file", user_id, bucket_id, key, gate)
        ELSE
            /\ s3_calls' = <<S3Call("generate_presigned_url",
                                    bucket_data.bucket_name, key)>>
            /\ classified' = <<>>
            /\ IF s3_ok
               THEN /\ Len(logged.logs) <= MaxLogs
                    /\ acoes_logs' = logged.logs
                    /\ response' = Reply("download_file", user_id, bucket_id,
                                         key, 200,
                                         [kind |-> "url",
                                          log_error |-> logged.log_error])
               ELSE /\ acoes_logs' = acoes_logs
                    /\ response' = Reply("download_file", user_id, bucket_id,
                                         key, 400, Error)
            /\ UNCHANGED <<toggles, file_key, outcome, pending, pages, buckets, objects>>

\* GET /buckets/{bucket_id}/files/{file_key}/read; the object's bytes
\* decode as text or not
read_file_content(user_id, bucket_id, key, s3_ok, decodes) ==
    LET gate == authorize(buckets, user_id, bucket_id)
        bucket_data == select_bucket(buckets, user_id, bucket_id)
        name == bucket_data.bucket_name
        json == Len(key) >= 5
                   /\ SubSeq(key, Len(key) - 4, Len(key))
                          = <<".", "j", "s", "o", "n">>
    IN  IF gate # 200
        THEN Refuse("read_file_content", user_id, bucket_id, key, gate)
        ELSE
            /\ s3_calls' = <<S3Call("get_object", name, key)>>
            /\ classified' = <<>>
            /\ response' =
                 IF s3_ok /\ key \in objects[name] /\ (json \/ decodes)
                 THEN Reply("read_file_content", user_id, bucket_id, key, 200,
                            [kind |-> "content"])
                 ELSE Reply("read_file_content", user_id, bucket_id, key, 400,
                            Error)
            /\ UNCHANGED <<toggles, file_key, outcome, pending, pages, buckets, objects, acoes_logs>>

\* a bug: a failed insert of the log entry fails the request, after the
\* object was deleted
delete_file_LogFatal(user_id, bucket_id, key, s3_ok, insert_ok) ==
    LET gate == authorize(buckets, user_id, bucket_id)
        bucket_data == select_bucket(buckets, user_id, bucket_id)
        name == bucket_data.bucket_name
        logged == log_action(acoes_logs, user_id, "delete", bucket_id, key,
                             insert_ok)
    IN  IF gate # 200
        THEN Refuse("delete_file", user_id, bucket_id, key, gate)
        ELSE
            /\ s3_calls' = <<S3Call("delete_object", name, key)>>
            /\ classified' = <<>>
            /\ IF s3_ok
               THEN /\ Len(logged.logs) <= MaxLogs
                    /\ objects' = [objects EXCEPT ![name] = @ \ {key}]
                    /\ acoes_logs' = logged.logs
                    /\ response' =
                         IF logged.log_error
                         THEN Reply("delete_file", user_id, bucket_id, key,
                                    400, Error)
                         ELSE Reply("delete_file", user_id, bucket_id, key,
                                    200,
                                    [kind |-> "deleted",
                                     log_error |-> logged.log_error])
               ELSE /\ UNCHANGED <<objects, acoes_logs>>
                    /\ response' = Reply("delete_file", user_id, bucket_id,
                                         key, 400, Error)
            /\ UNCHANGED <<toggles, file_key, outcome, pending, pages, buckets>>

\* a bug: the log entry is written before the storage delete is attempted
delete_file_LogFirst(user_id, bucket_id, key, s3_ok, insert_ok) ==
    LET gate == authorize(buckets, user_id, bucket_id)
        bucket_data == select_bucket(buckets, user_id, bucket_id)
        name == bucket_data.bucket_name
        logged == log_action(acoes_logs, user_id, "delete", bucket_id, key,
                             insert_ok)
    IN  IF gate # 200
        THEN Refuse("delete_file", user_id, bucket_id, key, gate)
        ELSE
            /\ s3_calls' = <<S3Call("delete_object", name, key)>>
            /\ classified' = <<>>
            /\ Len(logged.logs) <= MaxLogs
            /\ acoes_logs' = logged.logs
            /\ IF s3_ok
               THEN /\ objects' = [objects EXCEPT ![name] = @ \ {key}]
                    /\ response' = Reply("delete_file", user_id, bucket_id,
                                         key, 200,
                                         [kind |-> "deleted",
                                          log_error |-> logged.log_error])
               ELSE /\ UNCHANGED objects
                    /\ response' = Reply("delete_file", user_id, bucket_id,
                                         key, 400, Error)
            /\ UNCHANGED <<toggles, file_key, outcome, pending, pages, buckets>>

\* DELETE /buckets/{bucket_id}/files/{file_key}
delete_file(user_id, bucket_id, key, s3_ok, insert_ok) ==
    LET gate == authorize(buckets, user_id, bucket_id)
        bucket_data == select_bucket(buckets, user_id, bucket_id)
        name == bucket_data.bucket_name
        logged == log_action(acoes_logs, user_id, "delete", bucket_id, key,
                             insert_ok)
    IN  IF gate # 200
        THEN Refuse("delete_file", user_id, bucket_id, key, gate)
        ELSE
            /\ s3_calls' = <<S3Call("delete_object", name, key)>>
            /\ classified' = <<>>
            /\ IF s3_ok
               THEN /\ Len(logged.logs) <= MaxLogs
                    /\ objects' = [objects EXCEPT ![name] = @ \ {key}]
                    /\ acoes_logs' = logged.logs
                    /\ response' = Reply("delete_file", user_id, bucket_id,
                                         key, 200,
                                         [kind |-> "deleted",
                                          log_error |-> logged.log_error])
               ELSE /\ UNCHANGED <<objects, acoes_logs>>
                    /\ response' = Reply("delete_file", user_id, bucket_id,
                                         key, 400, Error)
            /\ UNCHANGED <<toggles, file_key, outcome, pending, pages, buckets>>

\* PATCH /buckets/{bucket_id}/toggle-active
toggle_bucket_active(user_id, bucket_id) ==
    LET bucket_data == select_bucket(buckets, user_id, bucket_id)
    IN  /\ IF ~bucket_data.exists
           THEN /\ buckets' = buckets
                /\ response' = Reply("toggle_bucket_active", user_id,
                                     bucket_id, <<>>, 404, Error)
           ELSE /\ buckets' = [buckets EXCEPT
                                  ![bucket_id].active = ~bucket_data.active]
                /\ response' = Reply("toggle_bucket_active", user_id,
                                     bucket_id, <<>>, 200,
                                     [kind |-> "bucket",
                                      active |-> ~bucket_data.active])
        /\ s3_calls' = <<>>
        /\ classified' = <<>>
        /\ UNCHANGED <<toggles, file_key, outcome, pending, pages, objects, acoes_logs>>

\* the keys requests name
RequestKeys == {KeyA1, KeyNotes}

Init ==
    /\ file_key = <<>>
    /\ outcome = NotRun
    /\ buckets = StoredBuckets
    /\ objects = [n \in BucketNames |-> {}]
    /\ acoes_logs = <<>>
    /\ s3_calls = <<>>
    /\ classified = <<>>
    /\ response = NoResponse
    /\ pending = <<>>
    /\ pages = <<>>
    /\ toggles = <<>>

\* the query parameters list_files is asked with
ListRequests ==
    {NoQuery,
     [NoQuery EXCEPT !.prefix = Some(<<"d", "/">>), !.page_size = 1]}

ListFiles ==
    \E user_id \in Users, bucket_id \in BucketIds, q \in ListRequests,
       s3_ok \in BOOLEAN :
        /\ list_files(user_id, bucket_id, q, s3_ok, <<"1", "A">>)
        /\ UNCHANGED pages

UploadFile ==
    \E user_id \in Users, bucket_id \in BucketIds, key \in RequestKeys,
       s3_ok \in BOOLEAN :
        upload_file(user_id, bucket_id, key, s3_ok)

DownloadFile ==
    \E user_id \in Users, bucket_id \in BucketIds, key \in RequestKeys,
       s3_ok \in BOOLEAN, insert_ok \in BOOLEAN :
        download_file(user_id, bucket_id, key, s3_ok, insert_ok)

ReadFileContent ==
    \E user_id \in Users, bucket_id \in BucketIds, key \in RequestKeys,
       s3_ok \in BOOLEAN, decodes \in BOOLEAN :
        read_file_content(user_id, bucket_id, key, s3_ok, decodes)

DeleteFile ==
    \E user_id \in Users, bucket_id \in BucketIds, key \in RequestKeys,
       s3_ok \in BOOLEAN, insert_ok \in BOOLEAN :
        delete_file(user_id, bucket_id, key, s3_ok, insert_ok)

GetRelatedFiles ==
    \E user_id \in Users, bucket_id \in BucketIds, key \in RequestKeys,
       s3_ok \in BOOLEAN :
        get_related_files(user_id, bucket_id, key, s3_ok)

ToggleBucketActive ==
    \E user_id \in Users, bucket_id \in BucketIds :
        toggle_bucket_active(user_id, bucket_id)

Next ==
    \/ ListFiles
    \/ UploadFile
    \/ DownloadFile
    \/ ReadFileContent
    \/ DeleteFile
    \/ GetRelatedFiles
    \/ ToggleBucketActive

Spec == Init /\ [][Next]_vars

-----------------------------------------------------------------------------
(* main.py: the bucket registrations and the audit log.  A handler that    *)
(* makes several calls to the relational store is one step per call:       *)
(* requests of other clients may run between them.                         *)

StoreBucketNames == {"s3a", "s3b"}

\* the most requests in flight at a time
MaxClients == 2

Clients == 1..MaxClients

Idle == [op |-> "idle"]

\* a row that was deleted; its id is not given again
Deleted == [exists |-> FALSE, deleted |-> TRUE]

\* the BucketCreate body for a bucket_name
BucketCreate(bucket_name) ==
    [name |-> "n1", bucket_name |-> bucket_name, aws_access_key |-> "k1",
     aws_secret_key |-> "s1", region |-> "us-east-1", active |-> TRUE]

BucketFields ==
    {"name", "bucket_name", "aws_access_key", "aws_secret_key", "region",
     "active"}

NoUpdate == [f \in BucketFields |-> Absent]

\* the BucketUpdate body that names a bucket_name only
Rename(bucket_name) == [NoUpdate EXCEPT !.bucket_name = Some(bucket_name)]

\* the row insert(bucket_data) creates
NewRow(user_id, bucket) ==
    [exists |-> TRUE, user_id |-> user_id, name |-> bucket.name,
     bucket_name |-> bucket.bucket_name,
     aws_access_key |-> bucket.aws_access_key,
     aws_secret_key |-> bucket.aws_secret_key,
     region |-> bucket.region, active |-> bucket.active]

\* the id the store gives the next row
NewId(rows) == IF rows["b1"] = NoRow THEN "b1" ELSE "b2"

\* select("*").eq("user_id", user_id).eq("bucket_name", bucket_name): the
\* ids of the rows found
existing(rows, user_id, bucket_name) ==
    {b \in DOMAIN rows :
        /\ rows[b].exists
        /\ rows[b].user_id = user_id
        /\ rows[b].bucket_name = bucket_name}

\* a request ends: its client is idle again and the response is out
Respond(client, r) ==
    /\ pending' = [pending EXCEPT ![client] = Idle]
    /\ response' = r

\* a request goes on to its next call to the store
GoOn(client, request) ==
    /\ pending' = [pending EXCEPT ![client] = request]
    /\ UNCHANGED response

\* create_bucket, up to the select of the rows with the same name
create_bucket_select(client, user_id, bucket) ==
    /\ pending[client] = Idle
    /\ IF existing(buckets, user_id, bucket.bucket_name) # {}
       THEN Respond(client, Reply("create_bucket", user_id, "", <<>>, 400,
                                  Error))
       ELSE GoOn(client, [op |-> "create_bucket", pc |-> "insert",
                          user_id |-> user_id, bucket |-> bucket])
    /\ UNCHANGED <<toggles, file_key, outcome, buckets, objects, acoes_logs, s3_calls,
                   classified, pages>>

\* create_bucket, the insert and the response
create_bucket_insert(client) ==
    LET request == pending[client]
        id == NewId(buckets)
    IN  /\ request.op = "create_bucket" /\ request.pc = "insert"
        /\ buckets[id] = NoRow
        /\ buckets' = [buckets EXCEPT
                          ![id] = NewRow(request.user_id, request.bucket)]
        /\ Respond(client, Reply("create_bucket", request.user_id, id, <<>>,
                                 200, [kind |-> "bucket"]))
        /\ UNCHANGED <<toggles, file_key, outcome, objects, acoes_logs, s3_calls,
                       classified, pages>>

\* update_data: the fields of the body that are not None
update_data(bucket_update) ==
    {f \in BucketFields : bucket_update[f] # Absent}

\* update_bucket, up to the select of the row
update_bucket_select(client, user_id, bucket_id, bucket_update) ==
    LET row == select_bucket(buckets, user_id, bucket_id)
    IN  /\ pending[client] = Idle
        /\ IF ~row.exists
           THEN Respond(client, Reply("update_bucket", user_id, bucket_id,
                                      bucket_update, 404, Error))
           ELSE IF /\ bucket_update.bucket_name # Absent
                   /\ bucket_update.bucket_name[1] # row.bucket_name
           THEN GoOn(client, [op |-> "update_bucket", pc |-> "existing",
                              user_id |-> user_id, bucket_id |-> bucket_id,
                              bucket_update |-> bucket_update])
           ELSE IF update_data(bucket_update) = {}
           THEN Respond(client, Reply("update_bucket", user_id, bucket_id,
                                      bucket_update, 400, Error))
           ELSE GoOn(client, [op |-> "update_bucket", pc |-> "update",
                              user_id |-> user_id, bucket_id |-> bucket_id,
                              bucket_update |-> bucket_update])
        /\ UNCHANGED <<toggles, file_key, outcome, buckets, objects, acoes_logs,
                       s3_calls, classified, pages>>

\* update_bucket, the select of the rows that have the new name
update_bucket_existing(client) ==
    LET request == pending[client]
    IN  /\ request.op = "update_bucket" /\ request.pc = "existing"
        /\ IF existing(buckets, request.user_id,
                       request.bucket_update.bucket_name[1]) # {}
           THEN Respond(client, Reply("update_bucket", request.user_id,
                                      request.bucket_id,
                                      request.bucket_update, 400, Error))
           ELSE GoOn(client, [request EXCEPT !.pc = "update"])
        /\ UNCHANGED <<toggles, file_key, outcome, buckets, objects, acoes_logs,
                       s3_calls, classified, pages>>

\* a bug: the row is written from the whole body, a name that was not
\* supplied as the empty name
updated_row_WholeBody(row, bucket_update) ==
    [f \in DOMAIN row |->
        IF f \in update_data(bucket_update) THEN bucket_update[f][1]
        ELSE IF f = "name" THEN ""
        ELSE row[f]]

\* the row with the fields of update_data set
updated_row(row, bucket_update) ==
    [f \in DOMAIN row |->
        IF f \in update_data(bucket_update) THEN bucket_update[f][1]
        ELSE row[f]]

\* update_bucket, the update and the response; "result.data[0]" raises when
\* the row is no longer there
update_bucket_update(client) ==
    LET request == pending[client]
        row == select_bucket(buckets, request.user_id, request.bucket_id)
    IN  /\ request.op = "update_bucket" /\ request.pc = "update"
        /\ IF ~row.exists
           THEN /\ UNCHANGED buckets
                /\ Respond(client, Reply("update_bucket", request.user_id,
                                         request.bucket_id,
                                      request.bucket_update, 400, Error))
           ELSE /\ buckets' = [buckets EXCEPT
                                  ![request.bucket_id] =
                                      updated_row(row, request.bucket_update)]
                /\ Respond(client, Reply("update_bucket", request.user_id,
                                         request.bucket_id,
                                         request.bucket_update, 200,
                                         [kind |-> "bucket"]))
        /\ UNCHANGED <<toggles, file_key, outcome, objects, acoes_logs, s3_calls,
                       classified, pages>>

\* a bug: the rows of acoes_logs that name the bucket stay
delete_bucket_NoCascade(user_id, bucket_id) ==
    LET row == select_bucket(buckets, user_id, bucket_id)
    IN  /\ IF ~row.exists
           THEN /\ UNCHANGED <<buckets, acoes_logs>>
                /\ response' = Reply("delete_bucket", user_id, bucket_id,
                                     <<>>, 404, Error)
           ELSE /\ buckets' = [buckets EXCEPT ![bucket_id] = Deleted]
                /\ UNCHANGED acoes_logs
                /\ response' = Reply("delete_bucket", user_id, bucket_id,
                                     <<>>, 200, [kind |-> "bucket_deleted"])
        /\ s3_calls' = <<>>
        /\ classified' = <<>>
        /\ UNCHANGED <<toggles, file_key, outcome, pending, pages, objects>>

\* DELETE /buckets/{bucket_id}: the row is deleted and, by the cascade the
\* handler counts on ("cascade vai deletar os logs também"), the rows of
\* acoes_logs that name it
delete_bucket(user_id, bucket_id) ==
    LET row == select_bucket(buckets, user_id, bucket_id)
    IN  /\ IF ~row.exists
           THEN /\ UNCHANGED <<buckets, acoes_logs>>
                /\ response' = Reply("delete_bucket", user_id, bucket_id,
                                     <<>>, 404, Error)
           ELSE /\ buckets' = [buckets EXCEPT ![bucket_id] = Deleted]
                /\ acoes_logs' =
                       SelectSeq(acoes_logs,
                                 LAMBDA e : e.bucket_id # bucket_id)
                /\ response' = Reply("delete_bucket", user_id, bucket_id,
                                     <<>>, 200, [kind |-> "bucket_deleted"])
        /\ s3_calls' = <<>>
        /\ classified' = <<>>
        /\ UNCHANGED <<toggles, file_key, outcome, pending, pages, objects>>

\* limit: Optional[int] = Query(100, ge=1, le=1000)
LogsLimit == 100

Reverse(s) == [i \in 1..Len(s) |-> s[Len(s) + 1 - i]]

\* the rows the query of list_logs gives: those of the user, filtered
\* ("if bucket_id:", "if action_type:" of names that are not empty), latest
\* first, at most limit of them
logs_query(logs, user_id, bucket_id, action_type, limit) ==
    LET rows ==
            SelectSeq(logs,
                      LAMBDA e :
                          /\ e.user_id = user_id
                          /\ bucket_id # Absent
                                 => e.bucket_id = bucket_id[1]
                          /\ action_type # Absent
                                 => e.action_type = action_type[1])
    IN  SubSeq(Reverse(rows), 1, Min(limit, Len(rows)))

\* GET /logs
list_logs(user_id, bucket_id, action_type, limit) ==
    /\ response' =
         IF action_type # Absent
                /\ action_type[1] \notin {"download", "delete"}
         THEN Reply("list_logs", user_id, bucket_id, <<>>, 400, Error)
         ELSE Reply("list_logs", user_id, bucket_id, <<>>, 200,
                    [kind |-> "logs",
                     action_type |-> action_type,
                     limit |-> limit,
                     logs |-> logs_query(acoes_logs, user_id, bucket_id,
                                         action_type, limit),
                     total |-> Len(logs_query(acoes_logs, user_id, bucket_id,
                                              action_type, limit))])
    /\ s3_calls' = <<>>
    /\ classified' = <<>>
    /\ UNCHANGED <<toggles, file_key, outcome, pending, pages, buckets, objects,
                   acoes_logs>>

-----------------------------------------------------------------------------
(* Concurrent create_bucket and update_bucket requests on an empty table *)

InitStore ==
    /\ file_key = <<>>
    /\ outcome = NotRun
    /\ buckets = [b \in BucketIds |-> NoRow]
    /\ objects = [n \in StoreBucketNames |-> {}]
    /\ acoes_logs = <<>>
    /\ s3_calls = <<>>
    /\ classified = <<>>
    /\ response = NoResponse
    /\ pending = [c \in Clients |-> Idle]
    /\ pages = <<>>
    /\ toggles = <<>>

\* the (user_id, bucket_name) pairs of the create_bucket requests
CreateRequests == {<<"u1", "s3a">>, <<"u1", "s3b">>, <<"u2", "s3a">>}

\* the (user_id, bucket_id, body) triples of the update_bucket requests
UpdateRequests ==
    {<<"u1", "b1", Rename("s3b")>>,
     <<"u1", "b2", Rename("s3a")>>,
     <<"u2", "b1", Rename("s3b")>>,
     <<"u1", "b1", NoUpdate>>,
     <<"u1", "b1", [NoUpdate EXCEPT !.name = Some("n2"),
                                    !.active = Some(FALSE)]>>}

CreateBucketSelect ==
    \E client \in Clients, q \in CreateRequests :
        create_bucket_select(client, q[1], BucketCreate(q[2]))

CreateBucketInsert == \E client \in Clients : create_bucket_insert(client)

UpdateBucketSelect ==
    \E client \in Clients, q \in UpdateRequests :
        update_bucket_select(client, q[1], q[2], q[3])

UpdateBucketExisting == \E client \in Clients : update_bucket_existing(client)

UpdateBucketUpdate == \E client \in Clients : update_bucket_update(client)

NextStore ==
    \/ CreateBucketSelect
    \/ CreateBucketInsert
    \/ UpdateBucketSelect
    \/ UpdateBucketExisting
    \/ UpdateBucketUpdate

SpecStore == InitStore /\ [][NextStore]_vars

-----------------------------------------------------------------------------
(* The audit log under the requests that write it, read it and change the  *)
(* registrations it names                                                   *)

InitAudit ==
    /\ file_key = <<>>
    /\ outcome = NotRun
    /\ buckets = StoredBuckets
    /\ objects = [n \in StoreBucketNames |-> {}]
    /\ acoes_logs = <<>>
    /\ s3_calls = <<>>
    /\ classified = <<>>
    /\ response = NoResponse
    /\ pending = [c \in Clients |-> Idle]
    /\ pages = <<>>
    /\ toggles = <<>>

\* the key the logged requests name
LoggedKey == KeyA1

DownloadLogged ==
    \E user_id \in Users, bucket_id \in BucketIds, s3_ok \in BOOLEAN,
       insert_ok \in BOOLEAN :
        download_file(user_id, bucket_id, LoggedKey, s3_ok, insert_ok)

DeleteLogged ==
    \E user_id \in Users, bucket_id \in BucketIds, s3_ok \in BOOLEAN,
       insert_ok \in BOOLEAN :
        delete_file(user_id, bucket_id, LoggedKey, s3_ok, insert_ok)

\* the (bucket_id, action_type, limit) filters list_logs is asked with
LogFilters ==
    {<<Absent, Absent, LogsLimit>>,
     <<Some("b1"), Some("delete"), LogsLimit>>,
     <<Absent, Some("x"), 1>>}

ListLogs ==
    \E user_id \in Users, q \in LogFilters :
        list_logs(user_id, q[1], q[2], q[3])

\* the (user_id, bucket_id, body) triples of the update_bucket requests
AuditUpdateRequests ==
    {<<"u1", "b1", [NoUpdate EXCEPT !.name = Some("n2"),
                                    !.active = Some(FALSE)]>>,
     <<"u2", "b2", Rename("s3b")>>}

UpdateRegistrationSelect ==
    \E client \in Clients, q \in AuditUpdateRequests :
        update_bucket_select(client, q[1], q[2], q[3])

ToggleRegistration ==
    \E user_id \in Users, bucket_id \in BucketIds :
        toggle_bucket_active(user_id, bucket_id)

DeleteBucket ==
    \E user_id \in Users, bucket_id \in BucketIds :
        delete_bucket(user_id, bucket_id)

NextAudit ==
    \/ DownloadLogged
    \/ DeleteLogged
    \/ ListLogs
    \/ UpdateRegistrationSelect
    \/ UpdateBucketExisting
    \/ UpdateBucketUpdate
    \/ ToggleRegistration
    \/ DeleteBucket

SpecAudit == InitAudit /\ [][NextAudit]_vars

-----------------------------------------------------------------------------
(* main.py: toggle_bucket_active and upload_file as the steps they run in: *)
(* toggle_bucket_active reads the row and then writes it; upload_file      *)
(* reads the row, awaits the body of the file and then calls the storage   *)

\* the most toggle requests completed on one bucket
MaxToggles == 2

\* toggle_bucket_active, up to the select of the row: new_active is the
\* negation of the flag it read
toggle_select(client, user_id, bucket_id) ==
    LET bucket_data == select_bucket(buckets, user_id, bucket_id)
    IN  /\ pending[client] = Idle
        /\ IF ~bucket_data.exists
           THEN /\ Respond(client, Reply("toggle_bucket_active", user_id,
                                         bucket_id, <<>>, 404, Error))
                /\ s3_calls' = <<>>
           ELSE /\ GoOn(client, [op |-> "toggle_bucket_active",
                                 pc |-> "update", user_id |-> user_id,
                                 bucket_id |-> bucket_id,
                                 new_active |-> ~bucket_data.active])
                /\ UNCHANGED s3_calls
        /\ UNCHANGED <<toggles, file_key, outcome, buckets, objects,
                       acoes_logs, classified, pages>>

\* toggle_bucket_active, the update of active and the response;
\* "result.data[0]" raises when the row is no longer there
toggle_update(client) ==
    LET request == pending[client]
        row == select_bucket(buckets, request.user_id, request.bucket_id)
    IN  /\ request.op = "toggle_bucket_active" /\ request.pc = "update"
        /\ IF ~row.exists
           THEN /\ UNCHANGED <<buckets, toggles>>
                /\ Respond(client, Reply("toggle_bucket_active",
                                         request.user_id, request.bucket_id,
                                         <<>>, 400, Error))
           ELSE /\ toggles[request.bucket_id] < MaxToggles
                /\ buckets' = [buckets EXCEPT
                                  ![request.bucket_id].active =
                                      request.new_active]
                /\ toggles' = [toggles EXCEPT ![request.bucket_id] = @ + 1]
                /\ Respond(client, Reply("toggle_bucket_active",
                                         request.user_id, request.bucket_id,
                                         <<>>, 200,
                                         [kind |-> "bucket",
                                          active |-> request.new_active]))
        /\ s3_calls' = <<>>
        /\ UNCHANGED <<file_key, outcome, objects, acoes_logs, classified,
                       pages>>

\* upload_file, up to "await file.read()": the select of the row and the
\* tests of the gate
upload_file_gate(client, user_id, bucket_id, filename) ==
    LET gate == authorize(buckets, user_id, bucket_id)
        bucket_data == select_bucket(buckets, user_id, bucket_id)
    IN  /\ pending[client] = Idle
        /\ IF gate # 200
           THEN /\ Respond(client, Reply("upload_file", user_id, bucket_id,
                                         filename, gate, Error))
                /\ s3_calls' = <<>>
           ELSE /\ GoOn(client, [op |-> "upload_file", pc |-> "upload",
                                 user_id |-> user_id,
                                 bucket_id |-> bucket_id,
                                 filename |-> filename,
                                 bucket_name |-> bucket_data.bucket_name])
                /\ UNCHANGED s3_calls
        /\ UNCHANGED <<toggles, file_key, outcome, buckets, objects,
                       acoes_logs, classified, pages>>

\* upload_file, from upload_file_to_s3 on, with the bucket_data read at the
\* gate
upload_file_upload(client, s3_ok) ==
    LET request == pending[client]
        name == request.bucket_name
    IN  /\ request.op = "upload_file" /\ request.pc = "upload"
        /\ s3_calls' = <<S3Call("upload_fileobj", name, request.filename)>>
        /\ objects' = IF s3_ok
                      THEN [objects EXCEPT ![name] = @ \cup {request.filename}]
                      ELSE objects
        /\ Respond(client,
                   Reply("upload_file", request.user_id, request.bucket_id,
                         request.filename,
                         IF s3_ok THEN 200 ELSE 400,
                         IF s3_ok THEN [kind |-> "uploaded"] ELSE Error))
        /\ UNCHANGED <<toggles, file_key, outcome, buckets, acoes_logs,
                       classified, pages>>

InitSteps ==
    /\ file_key = <<>>
    /\ outcome = NotRun
    /\ buckets = StoredBuckets
    /\ objects = [n \in BucketNames |-> {}]
    /\ acoes_logs = <<>>
    /\ s3_calls = <<>>
    /\ classified = <<>>
    /\ response = NoResponse
    /\ pending = [c \in Clients |-> Idle]
    /\ pages = <<>>
    /\ toggles = [b \in BucketIds |-> 0]

ToggleSelect ==
    \E client \in Clients, user_id \in Users, bucket_id \in BucketIds :
        toggle_select(client, user_id, bucket_id)

ToggleUpdate == \E client \in Clients : toggle_update(client)

UploadFileGate ==
    \E client \in Clients, user_id \in Users, bucket_id \in BucketIds :
        upload_file_gate(client, user_id, bucket_id, LoggedKey)

UploadFileUpload ==
    \E client \in Clients, s3_ok \in BOOLEAN :
        upload_file_upload(client, s3_ok)

NextSteps ==
    \/ ToggleSelect
    \/ ToggleUpdate
    \/ UploadFileGate
    \/ UploadFileUpload

SpecSteps == InitSteps /\ [][NextSteps]_vars

-----------------------------------------------------------------------------
(* main.py: list_files over a stored bucket, asked with filters and asked  *)
(* page after page by a client that passes each next_token back            *)

\* the keys the listed bucket may hold
ListKeys == {KeyA1, KeyT, KeyT2, KeyNotes, KeyUpper}

\* the most requests the paging client makes
MaxPages == 3

\* what the paging client holds: the keys of the pages it was given, the
\* next_token and the has_more of the last response, the pages asked for
NoPages == [seen |-> <<>>, next_token |-> Absent, has_more |-> TRUE, n |-> 0]

\* the query of the paging client: no filter, two keys a page
PageQuery(next_token) ==
    [NoQuery EXCEPT !.prefix = Some(<<"d", "/">>), !.page_size = 2,
                    !.next_token = next_token]

InitList ==
    /\ file_key = <<>>
    /\ outcome = NotRun
    /\ buckets = StoredBuckets
    /\ objects \in [BucketNames ->
                      {S \in SUBSET ListKeys : Cardinality(S) <= MaxObjects}]
    /\ acoes_logs = <<>>
    /\ s3_calls = <<>>
    /\ classified = <<>>
    /\ response = NoResponse
    /\ pending = <<>>
    /\ pages = NoPages
    /\ toggles = <<>>

Date(y, m, d) == Some(y \o <<"-">> \o m \o <<"-">> \o d)

\* the filters list_files is asked with
FilterQueries ==
    {NoQuery,
     [NoQuery EXCEPT !.date_from = Date(<<"2", "0", "2", "5">>, <<"1", "1">>,
                                        <<"2", "6">>),
                     !.date_to = Date(<<"2", "0", "2", "5">>, <<"1", "1">>,
                                      <<"2", "6">>)],
     [NoQuery EXCEPT !.date_from = Date(<<"2", "0", "2", "5">>, <<"1", "1">>,
                                        <<"2", "6">>)],
     [NoQuery EXCEPT !.date_to = Date(<<"2", "0", "2", "5">>, <<"1", "3">>,
                                      <<"0", "1">>)],
     [NoQuery EXCEPT !.search = Some(<<"F", "1">>)],
     [NoQuery EXCEPT !.search = Some(<<"t", "x", "t">>),
                     !.page_size = 2],
     [NoQuery EXCEPT !.file_extension = Some(<<"t", "x", "t">>)],
     [NoQuery EXCEPT !.file_extension = Some(<<".", "T", "x", "t">>),
                     !.search = Some(<<"~">>)],
     [NoQuery EXCEPT !.file_extension = Some(<<" ", "m", "p", "3">>)]}

\* a request with filters
ListFiltered ==
    \E user_id \in Users, bucket_id \in BucketIds, q \in FilterQueries,
       token \in ContinuationTokens :
        /\ list_files(user_id, bucket_id, q, TRUE, token)
        /\ UNCHANGED pages

\* the paging client asks for its next page, with the next_token of the
\* response before
NextPage ==
    \E token \in ContinuationTokens :
        /\ pages.has_more
        /\ pages.n < MaxPages
        /\ list_files("u1", "b1", PageQuery(pages.next_token), TRUE, token)
        /\ pages' =
             [seen |-> pages.seen \o
                       [i \in 1..Len(response'.body.files) |->
                           response'.body.files[i].key],
              next_token |-> response'.body.next_token,
              has_more |-> response'.body.has_more,
              n |-> pages.n + 1]

NextList ==
    \/ ListFiltered
    \/ NextPage

SpecList == InitList /\ [][NextList]_vars

-----------------------------------------------------------------------------
(* The related-files search over a populated storage bucket *)

\* the targets the search is asked about
RelatedTargets == {KeyA1, KeyT, KeyNotes, KeyTop, KeyElsewhere}

InitRelated ==
    /\ file_key = <<>>
    /\ outcome = NotRun
    /\ buckets = StoredBuckets
    /\ objects \in [BucketNames ->
                      {S \in SUBSET ObjKeys : Cardinality(S) <= MaxObjects}]
    /\ acoes_logs = <<>>
    /\ s3_calls = <<>>
    /\ classified = <<>>
    /\ response = NoResponse
    /\ pending = <<>>
    /\ pages = <<>>
    /\ toggles = <<>>

SearchRelated ==
    \E user_id \in Users, bucket_id \in BucketIds, key \in RelatedTargets,
       s3_ok \in BOOLEAN :
        get_related_files(user_id, bucket_id, key, s3_ok)

\* find_related_files called on the FileInfo list of a bucket's keys, in
\* listing order, with the call_uuid and file_uuid of a call-file target
FindRelated ==
    \E bucket_name \in BucketNames, key \in RelatedTargets :
        /\ is_call_file(key)
        /\ response' =
             Reply("find_related_files", "", "", key, 200,
                   [kind |-> "related",
                    related |-> find_related_files(
                        parse_call_file_name(key).call_uuid,
                        parse_call_file_name(key).file_uuid,
                        [i \in 1..Cardinality(objects[bucket_name]) |->
                            FileInfo(Sorted(objects[bucket_name])[i])])])
        /\ classified' = Sorted(objects[bucket_name])
        /\ s3_calls' = <<>>
        /\ UNCHANGED <<toggles, file_key, outcome, pending, pages, buckets, objects, acoes_logs>>

NextRelated ==
    \/ SearchRelated
    \/ FindRelated

SpecRelated == InitRelated /\ [][NextRelated]_vars

-----------------------------------------------------------------------------
(* Properties of the related-files search, checked under SpecRelated *)

Slots == {"leg_a", "leg_b", "transcription"}

\* the test of a slot, for a candidate key and the target's metadata
Qualifies(slot, candidate, target) ==
    LET m == parse_call_file_name(candidate)
    IN  IF slot = "transcription"
        THEN /\ m.file_type = "transcription"
             /\ m.file_uuid = target.file_uuid
        ELSE /\ m.file_type = "audio"
             /\ m.call_uuid = target.call_uuid
             /\ m.leg = Some(IF slot = "leg_a" THEN <<"A">> ELSE <<"B">>)

\* a search that returned a result: the candidates are in classified
Searched ==
    /\ response.op \in {"get_related_files", "find_related_files"}
    /\ response.status = 200

\* the positions of the candidates that pass the test of a slot
QualifyingAt(slot) ==
    {i \in 1..Len(classified) :
        Qualifies(slot, classified[i],
                  parse_call_file_name(response.file_key))}

SetMin(S) == CHOOSE i \in S : \A j \in S : i <= j

SetMax(S) == CHOOSE i \in S : \A j \in S : j <= i

Related == response.body.related

\* C1 as stated: a slot for which candidates qualify holds the first of
\* them in iteration order.
C1_FirstMatchWins ==
    Searched =>
        \A slot \in Slots :
            QualifyingAt(slot) # {} =>
                /\ Related[slot] # Absent
                /\ Related[slot][1].key
                       = classified[SetMin(QualifyingAt(slot))]

\* C1 amended: in find_related_files and in get_related_files, a slot for
\* which candidates qualify holds the LAST of them in iteration order; the
\* earlier ones are overwritten, with no error.
C1_LastMatchWins ==
    Searched =>
        \A slot \in Slots :
            QualifyingAt(slot) # {} =>
                /\ Related[slot] # Absent
                /\ Related[slot][1].key
                       = classified[SetMax(QualifyingAt(slot))]

C1_Witness ==
    /\ response.op = "get_related_files" /\ response.status = 200
    /\ Cardinality(QualifyingAt("leg_a")) >= 2
    /\ Related.leg_a[1].key = classified[SetMax(QualifyingAt("leg_a"))]
    /\ Related.leg_a[1].key # classified[SetMin(QualifyingAt("leg_a"))]

\* C4: for a call-file target the result is sound and complete per slot: a
\* slot is present exactly when some listed candidate passes its test, the
\* key it holds is then such a candidate, and an empty pool leaves the three
\* slots absent.
C4_SoundAndComplete ==
    Searched =>
        \A slot \in Slots :
            /\ Related[slot] # Absent <=> QualifyingAt(slot) # {}
            /\ Related[slot] # Absent =>
                   \E i \in QualifyingAt(slot) :
                       Related[slot][1].key = classified[i]

C4_Witness ==
    /\ response.op = "get_related_files" /\ response.status = 200
    /\ response.file_key = KeyA1
    /\ KeyOther \in Range(classified)
    /\ Related.leg_a # Absent
    /\ Related.leg_b = Absent
    /\ Related.transcription # Absent

\* what the gate answers for a user and a bucket id, from the rows
GateOf(user_id, bucket_id) ==
    IF ~(buckets[bucket_id].exists /\ buckets[bucket_id].user_id = user_id)
    THEN 404
    ELSE IF ~buckets[bucket_id].active THEN 403
    ELSE 200

\* C5: when the target key is no call file, get_related_files answers with
\* an error (400 when the gate lets the request through), no listing is
\* issued and no candidate is classified.
C5_InvalidCallFile ==
    (response.op = "get_related_files" /\ ~is_call_file(response.file_key))
        => /\ response.body = Error
           /\ response.status
                  = (IF GateOf(response.user_id, response.bucket_id) = 200
                     THEN 400
                     ELSE GateOf(response.user_id, response.bucket_id))
           /\ s3_calls = <<>>
           /\ classified = <<>>

C5_Witness ==
    /\ response.op = "get_related_files"
    /\ response.file_key = KeyNotes
    /\ response.status = 400
    /\ KeyNotes \in objects["s3a"]
    /\ s3_calls = <<>>

\* the key each slot of a result holds
SlotKeys(related) ==
    [slot \in Slots |->
        IF related[slot] = Absent THEN Absent ELSE Some(related[slot][1].key)]

\* the candidates without the keys that are no call files
CallFilesOnly(pool) == SelectSeq(pool, is_call_file)

\* the slots the search of the latest request gives for a pool
SlotKeysFor(pool) ==
    LET target == parse_call_file_name(response.file_key)
    IN  IF response.op = "get_related_files"
        THEN SlotKeys(get_related_loop(pool, target.call_uuid,
                                       target.file_uuid))
        ELSE SlotKeys(find_related_files(
                          target.call_uuid, target.file_uuid,
                          [i \in 1..Len(pool) |-> FileInfo(pool[i])]))

\* the keys of a bucket that start with the date_path, in listing order
UnderDatePath(stored, date_path) ==
    SelectSeq(Sorted(stored), LAMBDA k : startswith(k, date_path))

\* C18: a get_related_files request that reaches the storage issues one
\* listing call, with the date_path of the target as Prefix, no StartAfter
\* and MaxKeys 10000; what it classifies is the one batch the provider
\* returns, the first S3PageLimit keys under the date_path, and every
\* related file it answers with is a key of that batch.
C18_SingleListing ==
    response.op = "get_related_files" /\ response.status = 200 =>
        LET date_path == parse_call_file_name(response.file_key).date_path
            under == UnderDatePath(objects["s3a"], date_path)
        IN  /\ Len(s3_calls) = 1
            /\ s3_calls[1].op = "list_objects_v2"
            /\ s3_calls[1].prefix
                   = IF date_path = <<>> THEN Absent ELSE Some(date_path)
            /\ s3_calls[1].start_after = Absent
            /\ s3_calls[1].max_keys = RelatedMaxKeys
            /\ classified = SubSeq(under, 1, Min(Len(under), S3PageLimit))
            /\ \A slot \in Slots :
                   Related[slot] # Absent
                       => Related[slot][1].key \in Range(classified)

\* the transcription of the target is in the bucket under the date_path,
\* beyond the batch, and the search answers without it
C18_Witness ==
    /\ response.op = "get_related_files" /\ response.status = 200
    /\ response.file_key = KeyA1
    /\ Len(classified) = S3PageLimit
    /\ KeyT \in objects["s3a"]
    /\ KeyT \notin Range(classified)
    /\ Related.transcription = Absent

C11_MalformedSkipped ==
    /\ Searched =>
           /\ SlotKeys(Related) = SlotKeysFor(CallFilesOnly(classified))
           /\ \A slot \in Slots :
                  Related[slot] # Absent
                      => is_call_file(Related[slot][1].key)
    /\ (response.op \in {"get_related_files", "find_related_files"}
            /\ response.status # 200)
           => classified = <<>>

C11_Witness ==
    /\ response.op = "get_related_files" /\ response.status = 200
    /\ KeyNotes \in Range(classified)
    /\ classified[Len(classified)] = KeyNotes
    /\ Related.leg_a # Absent
    /\ Related.transcription # Absent

-----------------------------------------------------------------------------
(* Properties of the object operations, checked under Spec *)

ObjectOps ==
    {"list_files", "upload_file", "download_file", "read_file_content",
     "delete_file", "get_related_files"}

\* the acoes_logs row of the request a response answers
LogEntryOf(r) ==
    [user_id |-> r.user_id,
     action_type |-> IF r.op = "download_file" THEN "download" ELSE "delete",
     bucket_id |-> r.bucket_id,
     file_key |-> r.file_key]

LoggedOpSucceeded(r) ==
    r.op \in {"download_file", "delete_file"} /\ r.status = 200

\* C6 as stated: a download or delete that succeeded has left its entry in
\* acoes_logs.
C6_AlwaysLogged ==
    LoggedOpSucceeded(response) =>
        /\ acoes_logs # <<>>
        /\ last(acoes_logs) = LogEntryOf(response)

\* C6 amended: a download or delete that succeeds appends its entry to
\* acoes_logs unless the insert failed; then the failure is only printed,
\* the request still succeeds and acoes_logs is as it was.
C6_LoggedUnlessInsertFails ==
    [][LoggedOpSucceeded(response') =>
           IF response'.body.log_error
           THEN acoes_logs' = acoes_logs
           ELSE acoes_logs' = Append(acoes_logs, LogEntryOf(response'))]_vars

C6_Witness ==
    /\ response.op = "delete_file" /\ response.status = 200
    /\ ~response.body.log_error
    /\ acoes_logs = <<LogEntryOf(response)>>

\* C7: an object operation on a bucket id the user cannot see fails with
\* 404, on an inactive registration with 403; in both cases no
\* storage-provider call is made and acoes_logs is left as it was.
C7_AuthorizationGate ==
    [][(response'.op \in ObjectOps
            /\ GateOf(response'.user_id, response'.bucket_id) # 200)
           => /\ response'.status
                     = GateOf(response'.user_id, response'.bucket_id)
              /\ response'.body = Error
              /\ s3_calls' = <<>>
              /\ acoes_logs' = acoes_logs
              /\ objects' = objects]_vars

C7_Witness ==
    /\ response.op = "delete_file"
    /\ response.status = 403
    /\ response.file_key \in objects["s3a"]
    /\ acoes_logs # <<>>
    /\ s3_calls = <<>>

\* the storage call a download or delete makes
StorageCallOf(r) ==
    S3Call(IF r.op = "download_file" THEN "generate_presigned_url"
           ELSE "delete_object",
           buckets[r.bucket_id].bucket_name, r.file_key)

\* C14: acoes_logs changes only by a download_file or delete_file that
\* made its storage call and succeeded (200), and then by that request's
\* entry appended; a download or delete that ends in an error, the storage
\* step having failed or not been reached, writes no entry and has no
\* storage effect.
C14_AuditAfterEffect ==
    [][/\ acoes_logs' # acoes_logs =>
              /\ LoggedOpSucceeded(response')
              /\ s3_calls' = <<StorageCallOf(response')>>
              /\ acoes_logs' = Append(acoes_logs, LogEntryOf(response'))
              /\ response'.op = "delete_file"
                     => response'.file_key
                            \notin objects'[buckets[response'.bucket_id]
                                                .bucket_name]
       /\ (response'.op \in {"download_file", "delete_file"}
               /\ response'.status # 200)
              => /\ response'.body = Error
                 /\ (s3_calls' # <<>> => response'.status = 400)
                 /\ acoes_logs' = acoes_logs
                 /\ objects' = objects]_vars

C14_Witness ==
    /\ response.op = "delete_file"
    /\ response.status = 400
    /\ s3_calls = <<StorageCallOf(response)>>
    /\ response.file_key \in objects["s3a"]
    /\ acoes_logs = <<>>

\* C16: a download or delete whose log insert failed is answered with
\* its success response all the same: acoes_logs is as it was, the storage
\* call was made and its effect stands; and a delete that removed an object
\* is answered with success whether or not its entry could be written.
C16_LogFailureSwallowed ==
    [][/\ (LoggedOpSucceeded(response') /\ response'.body.log_error)
              => /\ acoes_logs' = acoes_logs
                 /\ s3_calls' = <<StorageCallOf(response')>>
                 /\ response'.op = "delete_file"
                        => response'.file_key
                               \notin objects'[buckets[response'.bucket_id]
                                                   .bucket_name]
       /\ (response'.op = "delete_file" /\ objects' # objects)
              => response'.status = 200]_vars

C16_Witness ==
    /\ response.op = "delete_file" /\ response.status = 200
    /\ response.body.log_error
    /\ acoes_logs = <<>>
    /\ objects["s3a"] = {KeyNotes}
    /\ response.file_key = KeyA1

-----------------------------------------------------------------------------
(* Properties of the audit log, checked under SpecAudit *)

\* every row of a table is still there, at its place and as it was
Kept(logs, logs_after) ==
    /\ Len(logs) <= Len(logs_after)
    /\ SubSeq(logs_after, 1, Len(logs)) = logs

\* what list_logs gives a user who names no filter
LogsOf(logs, user_id) ==
    Range(logs_query(logs, user_id, Absent, Absent, LogsLimit))

\* list_logs with no filter answers with the rows of the user, latest first
ListsOwnRows(r, logs) ==
    (r.op = "list_logs" /\ r.status = 200 /\ r.bucket_id = Absent
         /\ r.body.action_type = Absent /\ r.body.limit = LogsLimit)
        => /\ r.body.logs
                  = Reverse(SelectSeq(logs, LAMBDA e : e.user_id = r.user_id))
           /\ r.body.total = Len(r.body.logs)

\* C15 as stated: no request, delete_bucket included, modifies or removes a
\* row of acoes_logs, so what list_logs gives a user only grows.
C15_AppendOnly ==
    [][/\ Kept(acoes_logs, acoes_logs')
       /\ \A user_id \in Users :
              LogsOf(acoes_logs, user_id) \subseteq LogsOf(acoes_logs', user_id)
       /\ ListsOwnRows(response', acoes_logs')]_vars

\* C15 amended: no request modifies a row of acoes_logs, and no request but
\* a delete_bucket that succeeds removes one: that one removes, with the
\* registration, the rows that name the deleted bucket, and leaves the others;
\* under every other request what list_logs gives a user only grows.
C15_AppendOnlyButCascade ==
    [][/\ IF response'.op = "delete_bucket" /\ response'.status = 200
          THEN acoes_logs'
                   = SelectSeq(acoes_logs,
                               LAMBDA e : e.bucket_id # response'.bucket_id)
          ELSE /\ Kept(acoes_logs, acoes_logs')
               /\ \A user_id \in Users :
                      LogsOf(acoes_logs, user_id)
                          \subseteq LogsOf(acoes_logs', user_id)
       /\ ListsOwnRows(response', acoes_logs')]_vars

C15_Witness ==
    /\ response.op = "delete_bucket" /\ response.status = 200
    /\ buckets[response.bucket_id] = Deleted
    /\ acoes_logs # <<>>
    /\ \A i \in 1..Len(acoes_logs) :
           acoes_logs[i].bucket_id # response.bucket_id

-----------------------------------------------------------------------------
(* A run of the parser on one key *)

InitParse ==
    /\ file_key \in KeySpace
    /\ outcome = NotRun
    /\ buckets = <<>>
    /\ objects = {}
    /\ acoes_logs = <<>>
    /\ s3_calls = <<>>
    /\ classified = <<>>
    /\ response = NoResponse
    /\ pending = <<>>
    /\ pages = <<>>
    /\ toggles = <<>>

ParseCall ==
    /\ outcome = NotRun
    /\ outcome' = parse_call_file_name(file_key)
    /\ UNCHANGED <<file_key, buckets, objects, acoes_logs, s3_calls,
                   classified, response, pending, pages, toggles>>

NextParse == ParseCall

SpecParse == InitParse /\ [][NextParse]_vars

-----------------------------------------------------------------------------
(* Properties of the parser, checked under SpecParse *)

MetadataFields ==
    {"file_type", "call_uuid", "file_uuid", "leg", "phone_number",
     "timestamp", "date_path", "extension"}

CountOf(s, c) == Cardinality({i \in 1..Len(s) : s[i] = c})

\* the substring after the last "/"
LeafOf(key) ==
    LET slashes == {i \in 1..Len(key) : key[i] = "/"}
    IN  IF slashes = {} THEN key
        ELSE SubSeq(key, (CHOOSE i \in slashes : \A j \in slashes : j <= i) + 1,
                    Len(key))

\* the number of `~`-separated fields of the leaf
FieldCount(key) == CountOf(LeafOf(key), "~") + 1

FieldOf(key, i) == split(LeafOf(key), "~")[i]

LastFieldOf(key) == FieldOf(key, FieldCount(key))

Parsed == outcome # NotRun

IsMetadata(r) == r.file_type \in {"audio", "transcription"}

\* C2 as stated: for every Audio or Transcription key whose last field
\* holds at least one ".", file_uuid followed by extension is the last field.
C2_RoundTripAnyDots ==
    (Parsed /\ IsMetadata(outcome) /\ contains(LastFieldOf(file_key), "."))
        => outcome.file_uuid \o outcome.extension = LastFieldOf(file_key)

\* C2 amended: for every Audio or Transcription key whose last field holds
\* at least one ".", file_uuid followed by extension is the last field
\* exactly when that field holds one "." only (with more, the text between
\* the first and the last "." is lost).
C2_RoundTripOneDot ==
    (Parsed /\ IsMetadata(outcome) /\ contains(LastFieldOf(file_key), "."))
        => ((outcome.file_uuid \o outcome.extension = LastFieldOf(file_key))
                <=> CountOf(LastFieldOf(file_key), ".") = 1)

C2_Witness ==
    /\ Parsed /\ outcome.file_type = "audio"
    /\ CountOf(LastFieldOf(file_key), ".") = 1
    /\ Len(outcome.file_uuid) > 0 /\ Len(outcome.extension) > 1
    /\ outcome.file_uuid \o outcome.extension = LastFieldOf(file_key)

\* C3: the parser classifies by the number of `~`-fields of the leaf: 5
\* gives audio, 2 gives transcription, any other count gives None, and
\* is_call_file is true exactly for 5 and 2.
C3_Classification ==
    Parsed =>
        /\ FieldCount(file_key) = 5 => outcome.file_type = "audio"
        /\ FieldCount(file_key) = 2 => outcome.file_type = "transcription"
        /\ FieldCount(file_key) \notin {2, 5} => outcome = NotACallFile
        /\ is_call_file(file_key) <=> FieldCount(file_key) \in {2, 5}

C3_Witness ==
    /\ Parsed /\ outcome.file_type = "transcription"
    /\ FieldCount(file_key) = 2
    /\ CountOf(file_key, "~") > 1

\* C8: no exception leaves parse_call_file_name: the outcome is None or a
\* complete metadata record, also when a step inside it fails.
C8_NoException ==
    Parsed =>
        \/ outcome = NotACallFile
        \/ IsMetadata(outcome) /\ DOMAIN outcome = MetadataFields

C8_Witness ==
    /\ Parsed /\ outcome.file_type = "transcription"
    /\ ~strptime(FieldOf(file_key, 1)).ok
    /\ DOMAIN outcome = MetadataFields

\* what the claim expects for a leg field
C9_ExpectedLeg(f) ==
    IF \/ Len(f) >= 2 /\ f[1] = "2" /\ f[2] = "A"
       \/ Len(f) >= 1 /\ f[1] = "A"
    THEN Some(<<"A">>)
    ELSE IF \/ Len(f) >= 2 /\ f[1] = "2" /\ f[2] = "B"
            \/ Len(f) >= 1 /\ f[1] = "B"
    THEN Some(<<"B">>)
    ELSE Absent

\* C9: for a 5-field leaf the leg is A when the 4th field begins with "2A"
\* or "A", B when it begins with "2B" or "B", absent otherwise; whatever the
\* 4th field, the record is an Audio record and nothing is raised.
C9_LegDerivation ==
    (Parsed /\ FieldCount(file_key) = 5) =>
        /\ outcome.file_type = "audio"
        /\ outcome.leg = C9_ExpectedLeg(FieldOf(file_key, 4))

C9_Witness ==
    /\ Parsed /\ outcome.file_type = "audio"
    /\ FieldOf(file_key, 4) = <<"X">>
    /\ outcome.leg = Absent

\* the literal pattern YYYY-MM-DDTHH:MM:SSZ
C10_LiteralPattern(t) ==
    /\ Len(t) = 20
    /\ \A i \in {1, 2, 3, 4, 6, 7, 9, 10, 12, 13, 15, 16, 18, 19} :
           t[i] \in Digits
    /\ t[5] = "-" /\ t[8] = "-" /\ t[11] = "T"
    /\ t[14] = ":" /\ t[17] = ":" /\ t[20] = "Z"

\* the key with the leading field of its leaf replaced by a valid timestamp
C10_WithValidTimestamp(key) ==
    LET leaf == LeafOf(key)
        first == FieldOf(key, 1)
    IN  SubSeq(key, 1, Len(key) - Len(leaf)) \o TsValid
            \o SubSeq(leaf, Len(first) + 1, Len(leaf))

C10_SameButTimestamp(r, q) ==
    /\ IsMetadata(r) /\ IsMetadata(q)
    /\ \A f \in MetadataFields \ {"timestamp"} : r[f] = q[f]

C10_SoftFailure(rejected) ==
    (Parsed /\ FieldCount(file_key) \in {2, 5} /\ rejected) =>
        /\ IsMetadata(outcome)
        /\ outcome.timestamp = Absent
        /\ C10_SameButTimestamp(
               outcome, parse_call_file_name(C10_WithValidTimestamp(file_key)))
        /\ parse_call_file_name(C10_WithValidTimestamp(file_key)).timestamp
               # Absent

\* C10 as stated: when the leading field of a 5-field or 2-field leaf does
\* not match the pattern YYYY-MM-DDTHH:MM:SSZ, the record is still produced,
\* its timestamp is absent and its other fields are those it would have with
\* a valid timestamp.
C10_SoftFailureLiteral ==
    C10_SoftFailure(~C10_LiteralPattern(FieldOf(file_key, 1)))

\* C10 amended: the same, when strptime with the format %Y-%m-%dT%H:%M:%SZ
\* rejects the leading field (strptime also accepts one-digit month, day,
\* hour, minute and second and lower-case t and z, which then give a
\* timestamp).
C10_SoftFailureStrptime ==
    C10_SoftFailure(~strptime(FieldOf(file_key, 1)).ok)

C10_Witness ==
    /\ Parsed /\ outcome.file_type = "audio"
    /\ ~strptime(FieldOf(file_key, 1)).ok
    /\ outcome.timestamp = Absent
    /\ outcome.leg # Absent
    /\ parse_call_file_name(C10_WithValidTimestamp(file_key)).timestamp
           = Some(SubSeq(TsValid, 1, 19))

\* C12: the shape of a metadata record: a transcription record has
\* call_uuid, leg and phone_number absent; an audio record has call_uuid and
\* phone_number present, the 2nd and 3rd field of the leaf as they stand
\* (also when empty); both carry file_uuid, date_path and extension.
C12_RecordShape ==
    Parsed =>
        /\ outcome.file_type = "transcription" =>
               /\ outcome.call_uuid = Absent
               /\ outcome.leg = Absent
               /\ outcome.phone_number = Absent
        /\ outcome.file_type = "audio" =>
               /\ outcome.call_uuid = Some(FieldOf(file_key, 2))
               /\ outcome.phone_number = Some(FieldOf(file_key, 3))
        /\ IsMetadata(outcome) =>
               /\ {"file_uuid", "date_path", "extension"} \subseteq DOMAIN outcome
               /\ \A f \in {"file_uuid", "date_path", "extension"} :
                      DOMAIN outcome[f] = 1..Len(outcome[f])

C12_Witness ==
    /\ Parsed /\ outcome.file_type = "audio"
    /\ FieldOf(file_key, 2) = <<>>
    /\ outcome.call_uuid = Some(<<>>)
    /\ outcome.phone_number = Some(<<"5", "5", "5">>)

\* C13: for a key classified as a call file, date_path is the text before
\* the last "/" of the key, the empty string when the key has no "/"; when
\* the key has a "/", date_path, "/" and the leaf give the key back.
C13_DatePath ==
    (Parsed /\ IsMetadata(outcome)) =>
        IF contains(file_key, "/")
        THEN /\ outcome.date_path
                    = SubSeq(file_key, 1,
                             Len(file_key) - Len(LeafOf(file_key)) - 1)
             /\ outcome.date_path \o <<"/">> \o LeafOf(file_key) = file_key
        ELSE outcome.date_path = <<>>

C13_Witness ==
    /\ Parsed /\ outcome.file_type = "audio"
    /\ CountOf(file_key, "/") = 3
    /\ outcome.date_path
           = <<"2", "0", "2", "5", "/", "1", "1", "/", "2", "6">>

-----------------------------------------------------------------------------
(* Properties of list_files, checked under SpecList *)

\* the keys under the paging client's prefix, in listing order
UnderPrefix(stored) ==
    SelectSeq(Sorted(stored), LAMBDA k : startswith(k, <<"d", "/">>))

IsPrefix(s, t) == Len(s) <= Len(t) /\ SubSeq(t, 1, Len(s)) = s

\* C17: the pages the client was given, one after the other, are the
\* objects under the prefix in listing order with no key skipped and none
\* repeated, and when a response says has_more is false they are all of them
C17_PagesCoverListing ==
    /\ IsPrefix(pages.seen, UnderPrefix(objects["s3a"]))
    /\ pages.n > 0 /\ ~pages.has_more
           => pages.seen = UnderPrefix(objects["s3a"])

\* a list_files request was answered with files; its query is kept in the
\* response
Listed == response.op = "list_files" /\ response.status = 200

\* a date <<year, month, day>> as one number, for comparing
DayNumber(date) == date[1] * 10000 + date[2] * 100 + date[3]

\* last_modified lies within [date_from, date_to], both ends included
WithinDates(key, date_from, date_to) ==
    /\ given(date_from)
           => DayNumber(strptime_date(date_from[1]).date)
                  <= DayNumber(LastModified[key])
    /\ given(date_to)
           => DayNumber(LastModified[key])
                  <= DayNumber(strptime_date(date_to[1]).date)

\* the text after the last "." of a key that has one
AfterLastDot(key) ==
    LET dots == {i \in 1..Len(key) : key[i] = "."}
    IN  SubSeq(key, (CHOOSE i \in dots : \A j \in dots : j <= i) + 1,
               Len(key))

\* a parameter without its leading dot, when it has one
NoLeadingDot(ext) ==
    IF Len(ext) > 0 /\ ext[1] = "." THEN SubSeq(ext, 2, Len(ext)) ELSE ext

\* the text after the key's last "." is ext, whatever the case of the
\* letters, ext with or without a leading dot
HasExtension(key, ext) ==
    /\ \E i \in 1..Len(key) : key[i] = "."
    /\ lower(AfterLastDot(key)) = lower(NoLeadingDot(ext))

\* the file of a batch passes the date and the search filter of the query
PassesDateAndSearch(key, q) ==
    /\ WithinDates(key, q.date_from, q.date_to)
    /\ given(q.search) => Substring(q.search[1], key)

\* the keys of the batch that pass every filter of the query, the
\* extension compared as it was given
PassingLiteral(batch, q) ==
    SelectSeq(batch,
              LAMBDA key :
                  /\ PassesDateAndSearch(key, q)
                  /\ given(q.file_extension)
                         => HasExtension(key, q.file_extension[1]))

\* the same, the extension compared after the blanks around it are removed
PassingStripped(batch, q) ==
    SelectSeq(batch,
              LAMBDA key :
                  /\ PassesDateAndSearch(key, q)
                  /\ given(q.file_extension)
                         => HasExtension(key, strip(q.file_extension[1])))

\* the keys of the files of the response
ReturnedKeys ==
    [i \in 1..Len(response.body.files) |-> response.body.files[i].key]

\* the keys the listing of the query covers: under the prefix, after the
\* next_token
Covered(stored, q) ==
    SelectSeq(Sorted(stored),
              LAMBDA key :
                  /\ given(q.prefix) => startswith(key, q.prefix[1])
                  /\ given(q.next_token) => KeyLess(q.next_token[1], key))

\* total, has_more, next_token and call_metadata of the response, for the
\* batch fetched
ResponseFields ==
    /\ response.body.total = Len(response.body.files)
    /\ response.body.has_more
           = (Len(classified) < Len(Covered(objects["s3a"],
                                            response.file_key)))
    /\ response.body.next_token # Absent <=> response.body.has_more
    /\ \A i \in 1..Len(response.body.files) :
           LET f == response.body.files[i]
           IN  /\ f.call_metadata # Absent <=> is_call_file(f.key)
               /\ f.call_metadata # Absent
                      => f.call_metadata[1] = parse_call_file_name(f.key)

\* C19 as stated: the files returned are the files of the batch, in batch
\* order, that pass every filter given, the file_extension parameter
\* compared as it was given.
C19_FilteredLiteral ==
    Listed =>
        /\ ReturnedKeys = PassingLiteral(classified, response.file_key)
        /\ ResponseFields

\* C19 as the code has it: the file_extension parameter is compared after
\* the white space around it is removed.
C19_FilteredStripped ==
    Listed =>
        /\ ReturnedKeys = PassingStripped(classified, response.file_key)
        /\ ResponseFields

\* the extension " mp3" was asked for and some files of the batch, not
\* all, were returned
C19_Witness ==
    /\ Listed
    /\ response.file_key.file_extension = Some(<<" ", "m", "p", "3">>)
    /\ Len(response.body.files) > 0
    /\ Len(response.body.files) < Len(classified)

-----------------------------------------------------------------------------
(* Properties of the bucket registrations, checked under SpecStore *)

\* C20: no user owns two bucket registrations with the same bucket_name,
\* whatever the order the steps of the create_bucket and update_bucket
\* requests are taken in.
C20_UniquePerUser ==
    \A a \in BucketIds, b \in BucketIds :
        (a # b /\ buckets[a].exists /\ buckets[b].exists)
            => ~(/\ buckets[a].user_id = buckets[b].user_id
                 /\ buckets[a].bucket_name = buckets[b].bucket_name)

\* the step ends an update_bucket request of the client: its response is
\* out, with the body it was asked with
UpdateEnds(client) ==
    /\ response'.op = "update_bucket"
    /\ pending'[client] = Idle
    /\ pending[client].op = "update_bucket" \/ pending' = pending

\* the fields the body of the answered request supplies
Supplied == {f \in BucketFields : response'.file_key[f] # Absent}

\* C24: a step that ends an update_bucket request with 200 sets the fields
\* the body supplies, on the row of the request, and changes no other
\* field and no other row; a step that ends it with an error changes no
\* row; the request is answered 404 when the select finds no row visible
\* to the user and 400 when the row is there and the body supplies no
\* field.
C24_UpdateFrame ==
    [][\A client \in Clients :
           UpdateEnds(client) =>
               /\ response'.status = 200 =>
                      \A b \in BucketIds :
                          /\ DOMAIN buckets'[b] = DOMAIN buckets[b]
                          /\ \A f \in DOMAIN buckets[b] :
                                 buckets'[b][f] =
                                     IF b = response'.bucket_id
                                            /\ f \in Supplied
                                     THEN response'.file_key[f][1]
                                     ELSE buckets[b][f]
               /\ response'.status # 200 => buckets' = buckets
               /\ pending' = pending =>
                      /\ response'.status = 404
                             <=> ~(/\ buckets[response'.bucket_id].exists
                                   /\ buckets[response'.bucket_id].user_id
                                          = response'.user_id)
                      /\ response'.status # 404 /\ Supplied = {}
                             => response'.status = 400
               /\ Supplied = {} => response'.status \in {400, 404}]_vars

\* an update_bucket request that supplied name and active was answered
\* 200: the row has them, its bucket_name is the one it was created with,
\* and the user's other registration is there
C24_Witness ==
    /\ response.op = "update_bucket" /\ response.status = 200
    /\ response.file_key.name = Some("n2")
    /\ response.file_key.bucket_name = Absent
    /\ buckets["b1"].exists /\ buckets["b2"].exists
    /\ buckets["b1"].name = "n2" /\ ~buckets["b1"].active
    /\ buckets["b1"].bucket_name = "s3a"
    /\ buckets["b2"].name = "n1"

-----------------------------------------------------------------------------
(* Properties of the requests that run in steps, checked under SpecSteps *)

\* C22: a step that calls the storage provider for an upload_file request
\* is taken with the registration of the bucket active.
C22_ActiveAtStorageCall ==
    [][\A client \in Clients :
           (pending[client].op = "upload_file" /\ pending'[client] = Idle)
               => /\ buckets[pending[client].bucket_id].exists
                  /\ buckets[pending[client].bucket_id].active]_vars

\* C23: after k toggle requests on a bucket have completed, its active
\* flag is the one it had at the start when k is even and the negation of
\* it when k is odd.
C23_NoLostToggle ==
    \A b \in BucketIds :
        buckets[b].active
            = IF toggles[b] % 2 = 0 THEN StoredBuckets[b].active
              ELSE ~StoredBuckets[b].active

=============================================================================
